---- MODULE Spec2Model ----
(***************************************************************************)
(* Certificate rendering engine of the meeting manager.                    *)
(*                                                                         *)
(*   SpecDim     parse_dim, the style-dimension resolver                   *)
(*   SpecRender  _render_html_from_layout, the layout resolver/compositor  *)
(*   Spec        templates, events, registrations and the certificate      *)
(*               entry points and routes                                   *)
(*                                                                         *)
(* Python strings are sequences of one-character strings.                  *)
(***************************************************************************)
EXTENDS Integers, Sequences, FiniteSets, TLC

VARIABLES
    dim_val,        \* parse_dim: the style value handed in
    dim_res,        \* parse_dim: its outcome, or Pending
    layout_data,    \* _render_html_from_layout: the layout argument
    context,        \* _render_html_from_layout: the context argument
    html,           \* _render_html_from_layout: its outcome, or Pending
    files,          \* paths that exist on disk (normalised, absolute)
    upload_folder,  \* current_app.config.get('UPLOAD_FOLDER'), or None
    os_name,        \* os.name
    WEASYPRINT_AVAILABLE,
    templates,      \* CertificateTemplate rows: id -> layout_data
    events,         \* Event rows: id -> record
    registrations,  \* Registration rows: id -> record
    last            \* outcome of the last request

vars == <<dim_val, dim_res, layout_data, context, html, files, upload_folder,
          os_name, WEASYPRINT_AVAILABLE, templates, events, registrations, last>>

dimVars == <<dim_val, dim_res>>
renderVars == <<layout_data, context, html>>
envVars == <<files, upload_folder, os_name>>
dbVars == <<WEASYPRINT_AVAILABLE, templates, events, registrations, last>>

None == [t |-> "None"]
Pending == [t |-> "pending"]

(***************************************************************************)
(* Python str helpers                                                      *)
(***************************************************************************)
Digits == {"0", "1", "2", "3", "4", "5", "6", "7", "8", "9"}

DigitVal(c) ==
    CASE c = "0" -> 0 [] c = "1" -> 1 [] c = "2" -> 2 [] c = "3" -> 3
      [] c = "4" -> 4 [] c = "5" -> 5 [] c = "6" -> 6 [] c = "7" -> 7
      [] c = "8" -> 8 [] c = "9" -> 9

DigitChar(d) ==
    CASE d = 0 -> "0" [] d = 1 -> "1" [] d = 2 -> "2" [] d = 3 -> "3"
      [] d = 4 -> "4" [] d = 5 -> "5" [] d = 6 -> "6" [] d = 7 -> "7"
      [] d = 8 -> "8" [] d = 9 -> "9"

RECURSIVE Pow10(_)
Pow10(n) == IF n = 0 THEN 1 ELSE 10 * Pow10(n - 1)

\* value of a digit string ("" is 0)
RECURSIVE DigitsVal(_)
DigitsVal(s) ==
    IF s = <<>> THEN 0
    ELSE 10 * DigitsVal(SubSeq(s, 1, Len(s) - 1)) + DigitVal(s[Len(s)])

\* str(n) for an int n >= 0
RECURSIVE NatStr(_)
NatStr(n) ==
    IF n < 10 THEN <<DigitChar(n)>>
    ELSE NatStr(n \div 10) \o <<DigitChar(n % 10)>>

AllDigits(s) == \A i \in 1..Len(s) : s[i] \in Digits

\* first index of character c in s, 0 when absent
IndexOf(s, c) ==
    IF \E i \in 1..Len(s) : s[i] = c
    THEN CHOOSE i \in 1..Len(s) : s[i] = c /\ \A j \in 1..(i - 1) : s[j] # c
    ELSE 0

\* s.replace('px', '')
RECURSIVE RemovePx(_)
RemovePx(s) ==
    IF Len(s) < 2 THEN s
    ELSE IF s[1] = "p" /\ s[2] = "x" THEN RemovePx(SubSeq(s, 3, Len(s)))
    ELSE <<s[1]>> \o RemovePx(Tail(s))

\* s.strip()
RECURSIVE LStrip(_)
LStrip(s) == IF s # <<>> /\ s[1] = " " THEN LStrip(Tail(s)) ELSE s

RECURSIVE RStrip(_)
RStrip(s) ==
    IF s # <<>> /\ s[Len(s)] = " " THEN RStrip(SubSeq(s, 1, Len(s) - 1)) ELSE s

Strip(s) == RStrip(LStrip(s))

AUTO == <<"a", "u", "t", "o">>
INF == <<"i", "n", "f">>
INFINITY == <<"i", "n", "f", "i", "n", "i", "t", "y">>
NAN == <<"n", "a", "n">>

(***************************************************************************)
(* Python values a style dimension can hold (JSON: null, string, number,   *)
(* boolean; json.loads also accepts Infinity and NaN) and str() of them    *)
(***************************************************************************)
PyString(s) == [t |-> "str", s |-> s]
PyInt(neg, n) == [t |-> "int", neg |-> neg, n |-> n]
\* a finite float with one decimal, tenths/10
PyFloat(neg, tenths) == [t |-> "float", kind |-> "fin", neg |-> neg, tenths |-> tenths]
PyFloatInf(neg) == [t |-> "float", kind |-> "inf", neg |-> neg]
PyFloatNan == [t |-> "float", kind |-> "nan"]
PyBool(b) == [t |-> "bool", b |-> b]

PyStr(val) ==
    CASE val.t = "str" -> val.s
      [] val.t = "None" -> <<"N", "o", "n", "e">>
      [] val.t = "bool" ->
            IF val.b THEN <<"T", "r", "u", "e">> ELSE <<"F", "a", "l", "s", "e">>
      [] val.t = "int" ->
            (IF val.neg THEN <<"-">> ELSE <<>>) \o NatStr(val.n)
      [] val.t = "float" /\ val.kind = "fin" ->
            (IF val.neg THEN <<"-">> ELSE <<>>) \o NatStr(val.tenths \div 10)
                \o <<".">> \o <<DigitChar(val.tenths % 10)>>
      [] val.t = "float" /\ val.kind = "inf" ->
            (IF val.neg THEN <<"-">> ELSE <<>>) \o INF
      [] val.t = "float" /\ val.kind = "nan" -> NAN

(***************************************************************************)
(* float(s): [kind |-> "err"] is ValueError; a finite value is             *)
(* (-1)^neg * num / den with den a power of ten                            *)
(***************************************************************************)
FloatMaxExp10 == 308

FloatErr == [kind |-> "err"]

\* digits [ "." digits ] with at least one digit
MantissaOk(m) ==
    LET dot == IndexOf(m, ".") IN
    IF dot = 0 THEN m # <<>> /\ AllDigits(m)
    ELSE /\ AllDigits(SubSeq(m, 1, dot - 1))
         /\ AllDigits(SubSeq(m, dot + 1, Len(m)))
         /\ Len(m) > 1

MantissaInt(m) ==
    LET dot == IndexOf(m, ".") IN
    IF dot = 0 THEN m ELSE SubSeq(m, 1, dot - 1)

MantissaFrac(m) ==
    LET dot == IndexOf(m, ".") IN
    IF dot = 0 THEN <<>> ELSE SubSeq(m, dot + 1, Len(m))

\* [sign] digits
ExponentOk(e) ==
    LET d == IF e # <<>> /\ e[1] \in {"-", "+"} THEN Tail(e) ELSE e IN
    d # <<>> /\ AllDigits(d)

ExponentNeg(e) == e[1] = "-"

ExponentAbs(e) == DigitsVal(IF e[1] \in {"-", "+"} THEN Tail(e) ELSE e)

FloatParse(str) ==
    LET s == Strip(str)
        signed == s # <<>> /\ s[1] \in {"-", "+"}
        neg == s # <<>> /\ s[1] = "-"
        body == IF signed THEN Tail(s) ELSE s
        epos == IndexOf(body, "e")
        mant == IF epos = 0 THEN body ELSE SubSeq(body, 1, epos - 1)
        expo == IF epos = 0 THEN <<>> ELSE SubSeq(body, epos + 1, Len(body))
        num == DigitsVal(MantissaInt(mant) \o MantissaFrac(mant))
        fl == Len(MantissaFrac(mant))
    IN
    IF body \in {INF, INFINITY} THEN [kind |-> "inf", neg |-> neg]
    ELSE IF body = NAN THEN [kind |-> "nan"]
    ELSE IF ~MantissaOk(mant) THEN FloatErr
    ELSE IF epos = 0 THEN
        [kind |-> "fin", neg |-> neg, num |-> num, den |-> Pow10(fl)]
    ELSE IF ~ExponentOk(expo) THEN FloatErr
    ELSE IF num = 0 THEN [kind |-> "fin", neg |-> neg, num |-> 0, den |-> 1]
    ELSE IF ~ExponentNeg(expo) /\ ExponentAbs(expo) > FloatMaxExp10 THEN
        [kind |-> "inf", neg |-> neg]
    ELSE IF ExponentNeg(expo) THEN
        [kind |-> "fin", neg |-> neg, num |-> num,
         den |-> Pow10(fl + ExponentAbs(expo))]
    ELSE IF ExponentAbs(expo) >= fl THEN
        [kind |-> "fin", neg |-> neg,
         num |-> num * Pow10(ExponentAbs(expo) - fl), den |-> 1]
    ELSE
        [kind |-> "fin", neg |-> neg, num |-> num,
         den |-> Pow10(fl - ExponentAbs(expo))]

\* num >= 0 for a float (nan compares false, -0.0 >= 0 is true)
FloatGeZero(f) ==
    CASE f.kind = "nan" -> FALSE
      [] f.kind = "inf" -> ~f.neg
      [] f.kind = "fin" -> ~f.neg \/ f.num = 0

(***************************************************************************)
(* parse_dim                                                               *)
(***************************************************************************)
Return(v) == [t |-> "return", v |-> v]
Raise(exc, msg) == [t |-> "raise", exc |-> exc, msg |-> msg]

\* int(num) of a float that is >= 0: OverflowError for infinity
IntOfFloat(f) ==
    IF f.kind = "inf" THEN Raise("OverflowError", "cannot convert float infinity to integer")
    ELSE Return(NatStr(f.num \div f.den))

parse_dim_gt0(val) ==
    IF val = None \/ val = PyString(AUTO) THEN Return(AUTO)
    ELSE LET s_val == Strip(RemovePx(PyStr(val)))
             num == FloatParse(s_val)
         IN IF s_val = <<>> THEN Return(AUTO)
            ELSE IF num.kind = "err" THEN Return(AUTO)
            ELSE IF FloatGeZero(num) /\ ~(num.kind = "fin" /\ num.num = 0)
                 THEN IntOfFloat(num)
            ELSE Return(AUTO)

parse_dim(val) ==
    IF val = None \/ val = PyString(AUTO) THEN Return(AUTO)
    ELSE LET s_val == Strip(RemovePx(PyStr(val)))
             num == FloatParse(s_val)
         IN IF s_val = <<>> THEN Return(AUTO)
            ELSE IF num.kind = "err" THEN Return(AUTO)
            ELSE IF FloatGeZero(num) THEN IntOfFloat(num)
            ELSE Return(AUTO)

(***************************************************************************)
(* Paths and URLs are sequences of tokens: separators, names, and for a    *)
(* URL the scheme ("http:"), "?" and "#".  "/static/bg.png" is             *)
(* <<"/", "static", "/", "bg.png">>.                                       *)
(***************************************************************************)
Get(f, k, default) == IF k \in DOMAIN f THEN f[k] ELSE default

\* truthiness of None / str
Truthy(v) == v # None /\ v.s # <<>>

StartsWith(s, prefix) ==
    Len(s) >= Len(prefix) /\ SubSeq(s, 1, Len(prefix)) = prefix

\* path.lstrip('/')
RECURSIVE LStripSlash(_)
LStripSlash(s) == IF s # <<>> /\ s[1] = "/" THEN LStripSlash(Tail(s)) ELSE s

IsSep(tok) == tok = "/" \/ (os_name = "nt" /\ tok = "\\")

Sep == IF os_name = "nt" THEN "\\" ELSE "/"

\* the drive of an absolute path, <<>> on posix
Drive == IF os_name = "nt" THEN <<"C:">> ELSE <<>>

\* os.path.abspath(current_app.static_folder)
static_root == Drive \o <<Sep, "app", Sep, "static">>

\* Config.UPLOAD_FOLDER = os.path.join(basedir, 'uploads')
UploadRoot == Drive \o <<Sep, "app", Sep, "uploads">>

\* os.path.isabs
isabs(p) ==
    IF os_name = "nt" THEN Len(p) >= 2 /\ p[1] = "C:" /\ IsSep(p[2])
    ELSE p # <<>> /\ p[1] = "/"

\* os.path.join(a, b) for an absolute a
join(a, b) ==
    IF b # <<>> /\ IsSep(b[1]) THEN Drive \o b
    ELSE IF a # <<>> /\ IsSep(a[Len(a)]) THEN a \o b
    ELSE a \o <<Sep>> \o b

\* the names of a path, separators and the drive dropped
RECURSIVE Components(_)
Components(p) ==
    IF p = <<>> THEN <<>>
    ELSE (IF IsSep(Head(p)) \/ Head(p) \in {"C:", ""} THEN <<>> ELSE <<Head(p)>>)
         \o Components(Tail(p))

\* an absolute path from its names
RECURSIVE BuildTail(_)
BuildTail(comps) ==
    IF comps = <<>> THEN <<>>
    ELSE <<Sep, Head(comps)>> \o BuildTail(Tail(comps))

Build(comps) == Drive \o (IF comps = <<>> THEN <<Sep>> ELSE BuildTail(comps))

\* lexical resolution of "." and ".." (os.path.normpath)
RECURSIVE Collapse(_, _)
Collapse(comps, stack) ==
    IF comps = <<>> THEN stack
    ELSE IF Head(comps) = "." THEN Collapse(Tail(comps), stack)
    ELSE IF Head(comps) = ".." THEN
        Collapse(Tail(comps),
                 IF stack = <<>> THEN stack ELSE SubSeq(stack, 1, Len(stack) - 1))
    ELSE Collapse(Tail(comps), Append(stack, Head(comps)))

\* os.path.abspath of an absolute path
abspath(p) == Build(Collapse(Components(p), <<>>))

\* directories of the deployment: they exist whatever files are uploaded
Dirs == {Build(<<>>), Build(<<"app">>), static_root, UploadRoot}

\* the way the operating system walks a path: on posix "x/.." needs x to
\* be an existing directory, on nt the path is collapsed lexically first
RECURSIVE Walk(_, _)
Walk(comps, stack) ==
    IF comps = <<>> THEN Build(stack) \in files \cup Dirs
    ELSE IF Head(comps) = "." THEN Walk(Tail(comps), stack)
    ELSE IF Head(comps) = ".." THEN
        /\ Build(stack) \in Dirs
        /\ Walk(Tail(comps),
                IF stack = <<>> THEN stack ELSE SubSeq(stack, 1, Len(stack) - 1))
    ELSE Walk(Tail(comps), Append(stack, Head(comps)))

\* os.path.exists
exists(p) ==
    IF os_name = "nt" THEN abspath(p) \in files \cup Dirs
    ELSE Walk(Components(p), <<>>)

\* 'file:///' + p.replace('\\', '/') on nt, 'file://' + p otherwise
FileUri(p) ==
    IF os_name = "nt"
    THEN <<"file:", "/", "/", "/">> \o [i \in 1..Len(p) |-> IF p[i] = "\\" THEN "/" ELSE p[i]]
    ELSE <<"file:", "/", "/">> \o p

Schemes == {"http:", "https:", "file:"}

\* the tokens before the first "?" or "#"
BeforeQuery(s) ==
    LET cut == {i \in 1..Len(s) : s[i] \in {"?", "#"}} IN
    IF cut = {} THEN s
    ELSE SubSeq(s, 1, (CHOOSE i \in cut : \A j \in cut : i <= j) - 1)

\* urlparse(url): [ok |-> FALSE] is ValueError (an unclosed '[' in the netloc)
urlparse(url) ==
    LET rest == IF url # <<>> /\ url[1] \in Schemes THEN Tail(url) ELSE url
        hasNetloc == Len(rest) >= 2 /\ rest[1] = "/" /\ rest[2] = "/"
        netloc == IF hasNetloc /\ Len(rest) >= 3 /\ rest[3] \notin {"/", "?", "#"}
                  THEN <<rest[3]>> ELSE <<>>
        after == IF hasNetloc THEN SubSeq(rest, 3 + Len(netloc), Len(rest)) ELSE rest
    IN IF netloc # <<>> /\ netloc[1] = "[bad" THEN [ok |-> FALSE]
       ELSE [ok |-> TRUE, path |-> BeforeQuery(after)]

STATIC_PREFIX == <<"/", "static", "/">>
UPLOADS_PREFIX == <<"/", "uploads", "/">>

\* path.replace(prefix, '', 1).lstrip('/') for a path that starts with prefix
RelPath(path, prefix) == LStripSlash(SubSeq(path, Len(prefix) + 1, Len(path)))

NoPath == [some |-> FALSE]
SomePath(p) == [some |-> TRUE, p |-> p]

\* lines 250-258: the filesystem path an image reference is rewritten to
ImageAbsPath(path) ==
    IF StartsWith(path, STATIC_PREFIX)
    THEN SomePath(abspath(join(static_root, RelPath(path, STATIC_PREFIX))))
    ELSE IF StartsWith(path, UPLOADS_PREFIX)
    THEN IF Truthy(upload_folder)
         THEN SomePath(abspath(join(upload_folder.s, RelPath(path, UPLOADS_PREFIX))))
         ELSE NoPath
    ELSE NoPath

\* lines 244-267: the src of an image element with content img_src; any
\* exception inside the try leaves img_src as it was
ImageSrc_noexists(img_src) ==
    LET parsed == urlparse(img_src) IN
    IF ~parsed.ok THEN img_src
    ELSE LET abs_path == ImageAbsPath(parsed.path) IN
         IF abs_path.some THEN FileUri(abs_path.p) ELSE img_src

ImageSrc(img_src) ==
    LET parsed == urlparse(img_src) IN
    IF ~parsed.ok THEN img_src
    ELSE LET abs_path == ImageAbsPath(parsed.path) IN
         IF abs_path.some /\ exists(abs_path.p) THEN FileUri(abs_path.p)
         ELSE img_src

\* lines 284-290: the filesystem path a background reference is rewritten to
BackgroundAbsPath(bg_path) ==
    IF StartsWith(bg_path, STATIC_PREFIX)
    THEN SomePath(join(static_root, RelPath(bg_path, STATIC_PREFIX)))
    ELSE NoPath

Decl(p, v) == [p |-> p, v |-> v]

BackgroundRule(uri) ==
    << Decl("background-image", <<"url(\"">> \o uri \o <<"\")">>),
       Decl("background-size", <<"cover">>),
       Decl("background-position", <<"center">>) >>

\* lines 274-300: background_style
BackgroundStyle_raw(bg_img) ==
    IF ~Truthy(bg_img) THEN <<>> ELSE BackgroundRule(bg_img.s)

BackgroundStyle(bg_img) ==
    IF ~Truthy(bg_img) THEN <<>>
    ELSE LET parsed_bg == urlparse(bg_img.s) IN
         IF ~parsed_bg.ok THEN BackgroundRule(bg_img.s)
         ELSE LET bg_abs_path == BackgroundAbsPath(parsed_bg.path) IN
              IF bg_abs_path.some /\ exists(bg_abs_path.p)
              THEN BackgroundRule(FileUri(bg_abs_path.p))
              ELSE BackgroundRule(bg_img.s)

(***************************************************************************)
(* _render_html_from_layout.  The HTML is kept structured: a fragment is   *)
(* a div or an img record, a style string a sequence of declarations.      *)
(***************************************************************************)
PX == <<"p", "x">>

EmptyStyle == [k \in {} |-> None]

\* f"{v}" of a str or None
Fmt(v) == IF v = None THEN <<"None">> ELSE v.s

\* style.get(k) or default
GetOr(style, k, default) ==
    IF k \in DOMAIN style /\ Truthy(style[k]) THEN style[k].s ELSE default

Div(style, text) == [tag |-> "div", style |-> style, text |-> text]
Img(src, style) == [tag |-> "img", src |-> src, style |-> style]

\* line 203: position style
PositionStyle(x, y) ==
    << Decl("position", <<"absolute">>),
       Decl("left", PyStr(x) \o PX),
       Decl("top", PyStr(y) \o PX) >>

\* width and height rules whatever the value
SizeStyle_always(width, height) ==
    <<Decl("width", width \o PX), Decl("height", height \o PX)>>

\* lines 205-208: width and height rules, only when not 'auto'
SizeStyle(width, height) ==
    (IF width # AUTO THEN <<Decl("width", width \o PX)>> ELSE <<>>)
    \o (IF height # AUTO THEN <<Decl("height", height \o PX)>> ELSE <<>>)

\* lines 211-217
FontStyle(style) ==
    << Decl("font-size", GetOr(style, "fontSize", <<"16px">>)),
       Decl("font-family", GetOr(style, "fontFamily", <<"Arial">>)),
       Decl("font-weight", GetOr(style, "fontWeight", <<"normal">>)),
       Decl("color", GetOr(style, "color", <<"#000000">>)),
       Decl("text-align", GetOr(style, "textAlign", <<"left">>)) >>

\* lines 237-239 and 269-271: the style of an <img>
ImgStyle(x, y, width, height, default_width) ==
    PositionStyle(x, y)
    \o << Decl("width", IF width # AUTO THEN width \o PX ELSE default_width),
          Decl("height", IF height # AUTO THEN height \o PX ELSE AUTO),
          Decl("display", <<"block">>) >>

\* content.replace('{{', '').replace('}}', '').strip()
RECURSIVE RemoveBraces(_)
RemoveBraces(s) ==
    IF s = <<>> THEN <<>>
    ELSE (IF Head(s) \in {"{{", "}}"} THEN <<>> ELSE <<Head(s)>>) \o RemoveBraces(Tail(s))

\* the key without .strip()
VariableKey_nostrip(content) == RemoveBraces(content)

VariableKey(content) == Strip(RemoveBraces(content))

SIGNATURE == <<"signature">>

TypeText == PyString(<<"text">>)
TypeVariable == PyString(<<"variable">>)
TypeImage == PyString(<<"image">>)

\* a variable element without the signature case
RenderVariable_div(x, y, width, height, common_style, key, val) ==
    Return(<<Div(common_style, Fmt(val))>>)

\* lines 219-241: a variable element with its key and resolved value
RenderVariable(x, y, width, height, common_style, key, val) ==
    IF key = SIGNATURE /\ Truthy(val)
    THEN Return(<<Img(IF isabs(val.s) THEN FileUri(val.s) ELSE val.s,
                      ImgStyle(x, y, width, height, <<"200px">>))>>)
    ELSE Return(<<Div(common_style, Fmt(val))>>)

\* context.get(key, content)
ContextGet(ctx, key, content) == IF key \in DOMAIN ctx THEN ctx[key] ELSE content

\* lines 219-271: the fragment of an element by its type, none for an
\* unknown type
RenderTyped(el_type, x, y, content, width, height, common_style, ctx) ==
    IF el_type = TypeText THEN Return(<<Div(common_style, Fmt(content))>>)
    ELSE IF el_type = TypeVariable THEN
        IF content = None
        THEN Raise("AttributeError", "'NoneType' object has no attribute 'replace'")
        ELSE RenderVariable(x, y, width, height, common_style,
                            VariableKey(content.s),
                            ContextGet(ctx, VariableKey(content.s), content))
    ELSE IF el_type = TypeImage THEN
        Return(<<Img(IF content = None THEN Fmt(content) ELSE ImageSrc(content.s),
                     ImgStyle(x, y, width, height, AUTO))>>)
    ELSE Return(<<>>)

\* lines 203-217: common_style
CommonStyle(el_type, x, y, style, width, height) ==
    PositionStyle(x, y) \o SizeStyle(width, height)
    \o (IF el_type \in {TypeText, TypeVariable} THEN FontStyle(style) ELSE <<>>)

\* lines 199-271, with width and height the outcomes of parse_dim
RenderSized(el_type, x, y, content, style, w, h, ctx) ==
    IF w.t = "raise" THEN w
    ELSE IF h.t = "raise" THEN h
    ELSE RenderTyped(el_type, x, y, content, w.v, h.v,
                     CommonStyle(el_type, x, y, style, w.v, h.v), ctx)

\* lines 180-200: width and height read from style
RenderStyled(el_type, x, y, content, style, ctx) ==
    IF style = None
    THEN Raise("AttributeError", "'NoneType' object has no attribute 'get'")
    ELSE RenderSized(el_type, x, y, content, style,
                     parse_dim(Get(style, "width", PyString(AUTO))),
                     parse_dim(Get(style, "height", PyString(AUTO))), ctx)

\* lines 173-271: one pass of the loop body; the fragments appended to
\* elements_html (none for an unknown type), or the exception raised
RenderElement(el, ctx) ==
    RenderStyled(Get(el, "type", None),
                 Get(el, "x", PyInt(FALSE, 0)),
                 Get(el, "y", PyInt(FALSE, 0)),
                 Get(el, "content", PyString(<<>>)),
                 Get(el, "style", EmptyStyle), ctx)

\* the for loop of line 173: fragments concatenated in list order, the
\* first exception ends the call
RECURSIVE RenderElements(_, _, _)

\* the fragment put before elements_html
RenderNext_prepend(r, elements, ctx, elements_html) ==
    IF r.t = "raise" THEN r
    ELSE RenderElements(Tail(elements), ctx, r.v \o elements_html)

RenderNext(r, elements, ctx, elements_html) ==
    IF r.t = "raise" THEN r
    ELSE RenderElements(Tail(elements), ctx, elements_html \o r.v)

RenderElements(elements, ctx, elements_html) ==
    IF elements = <<>> THEN Return(elements_html)
    ELSE RenderNext(RenderElement(Head(elements), ctx), elements, ctx, elements_html)

CanvasWidth == 794
CanvasHeight == 1123

\* lines 273-326: the background and the page shell around elements_html
ComposeHtml(layout, r) ==
    IF r.t = "raise" THEN r
    ELSE Return([container |-> [width |-> CanvasWidth, height |-> CanvasHeight],
                 background_style |-> BackgroundStyle(Get(layout, "backgroundImage", None)),
                 elements_html |-> r.v])

\* layout_data['elements'] in place of layout_data.get('elements', [])
_render_html_from_layout_strict(layout, ctx) ==
    IF "elements" \notin DOMAIN layout THEN Raise("KeyError", "'elements'")
    ELSE ComposeHtml(layout, RenderElements(layout.elements, ctx, <<>>))

_render_html_from_layout(layout, ctx) ==
    ComposeHtml(layout, RenderElements(Get(layout, "elements", <<>>), ctx, <<>>))

(***************************************************************************)
(* SpecDim: parse_dim applied to one style value                           *)
(***************************************************************************)
MaxDimLen == 3

DimAlphabet == {"0", "1", "5", ".", "-", "p", "x", "m", " "}

SeqsUpTo(S, n) == UNION {[1..k -> S] : k \in 0..n}

DimStringsExtra ==
    { AUTO, INF, <<"-">> \o INF, NAN, INFINITY,
      <<"1", "5", "0", "p", "x">>, <<"1", ".", "5", "p", "x">>,
      <<"1", "2", "e", "m">>, <<"1", "2", "0", "p", "t">>,
      <<"1", "e", "2">>, <<"1", "5", "e", "-", "1">>,
      <<"1", "e", "9", "9", "9">>, <<"1", "p", "x", "0">>,
      <<" ">> \o AUTO, <<"+", "5">> }

DimInputs ==
    {None, PyBool(TRUE), PyFloatNan, PyFloatInf(FALSE), PyFloatInf(TRUE)}
    \cup {PyString(s) : s \in SeqsUpTo(DimAlphabet, MaxDimLen) \cup DimStringsExtra}
    \cup {PyInt(neg, n) : neg \in BOOLEAN, n \in {0, 7, 150}}
    \cup {PyFloat(neg, n) : neg \in BOOLEAN, n \in {0, 5, 1505}}

NoLayout == [elements |-> <<>>, backgroundImage |-> None]
NoContext == [k \in {} |-> <<>>]
NoRows == [k \in {} |-> None]

DimIdle ==
    /\ layout_data = NoLayout /\ context = NoContext /\ html = Pending
    /\ files = {} /\ upload_folder = None /\ os_name = "posix"
    /\ WEASYPRINT_AVAILABLE = TRUE
    /\ templates = NoRows /\ events = NoRows /\ registrations = NoRows
    /\ last = Pending

InitDim ==
    /\ dim_val \in DimInputs
    /\ dim_res = Pending
    /\ DimIdle

ParseDim ==
    /\ dim_res = Pending
    /\ dim_res' = parse_dim(dim_val)
    /\ UNCHANGED <<dim_val, renderVars, envVars, dbVars>>

NextDim == ParseDim

SpecDim == InitDim /\ [][NextDim]_vars

(***************************************************************************)
(* Claims about parse_dim                                                  *)
(***************************************************************************)
\* a non-negative integer pixel value, as parse_dim prints it
IsPixelInteger(v) == v # <<>> /\ AllDigits(v)

\* C1: parse_dim is total: for every style value it raises nothing and
\* returns either "auto" or a non-negative integer pixel value.
C1_ParseDimTotal ==
    dim_res # Pending =>
        /\ dim_res.t = "return"
        /\ dim_res.v = AUTO \/ IsPixelInteger(dim_res.v)

\* the numeric prefixes of a string: its prefixes that read as a finite number
NumericPrefixes(s) ==
    {k \in 1..Len(s) : FloatParse(SubSeq(s, 1, k)).kind = "fin"}

HasNumericPrefix(s) == NumericPrefixes(s) # {}

NumericPrefix(s) ==
    LET k == CHOOSE k \in NumericPrefixes(s) : \A j \in NumericPrefixes(s) : j <= k
    IN FloatParse(SubSeq(s, 1, k))

IsNegative(f) == f.neg /\ f.num > 0

\* C2 as stated: "auto" iff the value is None, empty, "auto", non-numeric or
\* negative; otherwise the truncated integer of its numeric prefix, whatever
\* non-numeric suffix follows the prefix.
C2_AutoIffOrNumericPrefix ==
    dim_res # Pending =>
        LET s == Strip(PyStr(dim_val))
            auto == \/ dim_val = None
                    \/ s = <<>>
                    \/ s = AUTO
                    \/ ~HasNumericPrefix(s)
                    \/ IsNegative(NumericPrefix(s))
        IN IF auto THEN dim_res = Return(AUTO)
           ELSE dim_res = Return(NatStr(NumericPrefix(s).num \div NumericPrefix(s).den))

\* the value after the unit 'px' is removed and blanks are trimmed
DimRemainder(val) == Strip(RemovePx(PyStr(val)))

\* d is the canonical decimal of the integer part of the finite float f
IsTruncationOf(d, f) ==
    /\ IsPixelInteger(d)
    /\ Len(d) > 1 => d[1] # "0"
    /\ DigitsVal(d) * f.den <= f.num
    /\ f.num < (DigitsVal(d) + 1) * f.den

\* C2 as amended: only the unit 'px' is stripped. The result is "auto" iff
\* the value is None, "auto", or its remainder (every 'px' removed, blanks
\* trimmed) is empty, is no float literal, is not-a-number or is negative; a
\* finite non-negative remainder gives its truncated integer; an infinite
\* non-negative remainder gives no value (OverflowError).
C2_AutoIffOrPxRemainder ==
    dim_res # Pending =>
        LET r == DimRemainder(dim_val)
            f == FloatParse(r)
            auto == \/ dim_val = None
                    \/ dim_val = PyString(AUTO)
                    \/ r = <<>>
                    \/ f.kind \in {"err", "nan"}
                    \/ (f.kind = "inf" /\ f.neg)
                    \/ (f.kind = "fin" /\ IsNegative(f))
        IN /\ (dim_res = Return(AUTO)) <=> auto
           /\ (~auto /\ f.kind = "fin") =>
                 dim_res.t = "return" /\ IsTruncationOf(dim_res.v, f)
           /\ (~auto /\ f.kind = "inf") =>
                 dim_res.t = "raise" /\ dim_res.exc = "OverflowError"

\* a suffixed, fractional value is truncated: "1.5px" gives "1"
C2_Witness ==
    /\ dim_val = PyString(<<"1", ".", "5", "p", "x">>)
    /\ dim_res = Return(<<"1">>)

(***************************************************************************)
(* SpecRender: _render_html_from_layout applied to one layout, context and *)
(* filesystem                                                              *)
(***************************************************************************)
MaxElements == 2

\* files that may or may not exist: one under each root, one outside both
FileUniverse ==
    { Build(<<"app", "static", "bg.png">>),
      Build(<<"app", "uploads", "a.png">>),
      Build(<<"app", "secret.png">>) }

\* image and background references
Refs ==
    { <<"/", "static", "/", "bg.png">>,
      <<"/", "static", "/", "..", "/", "secret.png">>,
      <<"/", "static", "/", "nodir", "/", "..", "/", "bg.png">>,
      <<"/", "static", "/", "/", "bg.png">>,
      <<"/", "static", "/", "bg.png", "?", "v=1">>,
      <<"/", "static", "/">>,
      <<"/", "uploads", "/", "a.png">>,
      <<"/", "uploads", "/", "..", "/", "secret.png">>,
      <<"http:", "/", "/", "host", "/", "static", "/", "bg.png">>,
      <<"http:", "/", "/", "host", "/", "logo.png">>,
      <<"http:", "/", "/", "[bad", "/", "static", "/", "bg.png">>,
      <<"bg.png">>,
      <<"/", "app", "/", "secret.png">>,
      <<>> }

X10 == PyInt(FALSE, 10)
Y20 == PyInt(FALSE, 20)

ImageStyles == {EmptyStyle, [width |-> PyString(<<"1", "5", "0", "p", "x">>), height |-> None]}

ImageElement(ref, style) ==
    [type |-> TypeImage, x |-> X10, y |-> Y20, content |-> PyString(ref), style |-> style]

AssetLayouts ==
    {[elements |-> <<ImageElement(ref, st)>>, backgroundImage |-> bg] :
        ref \in Refs, st \in ImageStyles, bg \in {None} \cup {PyString(r) : r \in Refs}}

TOKEN_PRENOM == <<"{{", "prenom", "}}">>
TOKEN_MISSING == <<"{{", "missing_key", "}}">>
TOKEN_SIGNATURE == <<"{{", " ", "signature", " ", "}}">>
TOKEN_PRENOM_SPACED == <<"{{", " ", "prenom", " ", "}}">>

GeneralElements ==
    { [type |-> TypeText, x |-> X10, y |-> Y20, content |-> PyString(<<"Certificate">>),
       style |-> [width |-> PyString(<<"1", "5", "0", "p", "x">>), height |-> None]],
      [type |-> TypeText, content |-> PyString(<<"Attendance">>),
       style |-> [width |-> PyString(INF), fontSize |-> PyString(<<"24px">>)]],
      [type |-> TypeVariable, x |-> X10, y |-> Y20, content |-> PyString(TOKEN_PRENOM)],
      [type |-> TypeVariable, x |-> X10, y |-> Y20, content |-> PyString(TOKEN_MISSING)],
      [type |-> TypeVariable, content |-> PyString(TOKEN_PRENOM_SPACED),
       style |-> [width |-> PyString(<<"1", "5", "0", "p", "x">>), height |-> None]],
      [type |-> TypeVariable, x |-> X10, y |-> Y20, content |-> PyString(TOKEN_SIGNATURE),
       style |-> [height |-> PyInt(FALSE, 7)]],
      [type |-> TypeVariable, content |-> None],
      [type |-> PyString(<<"shape">>), x |-> X10, y |-> Y20, content |-> PyString(<<"box">>)],
      [x |-> X10, y |-> Y20, style |-> None],
      ImageElement(<<"/", "static", "/", "bg.png">>, EmptyStyle) }

GeneralLayouts ==
    {[elements |-> els] : els \in SeqsUpTo(GeneralElements, MaxElements)}
    \cup {[backgroundImage |-> None]}

Contexts ==
    { NoContext,
      (<<"prenom">> :> PyString(<<"Alice">>)) @@ (SIGNATURE :> PyString(<<>>)),
      (<<"prenom">> :> PyString(<<"Alice">>)) @@ (SIGNATURE :> PyString(<<"sig.png">>)),
      (<<"prenom">> :> PyString(<<"Alice">>))
          @@ (SIGNATURE :> PyString(join(UploadRoot, <<"sig.png">>))),
      (<<"prenom">> :> PyString(<<"Alice">>))
          @@ (SIGNATURE :> PyString(FileUri(join(UploadRoot, <<"sig.png">>)))) }

RenderIdle ==
    /\ dim_val = None /\ dim_res = Pending
    /\ WEASYPRINT_AVAILABLE = TRUE
    /\ templates = NoRows /\ events = NoRows /\ registrations = NoRows
    /\ last = Pending

InitRender ==
    /\ os_name \in {"posix", "nt"}
    /\ upload_folder \in {None, PyString(UploadRoot)}
    /\ \/ /\ layout_data \in AssetLayouts
          /\ context = NoContext
          /\ files \in SUBSET FileUniverse
       \/ /\ layout_data \in GeneralLayouts
          /\ context \in Contexts
          /\ files \in {{}, FileUniverse}
    /\ html = Pending
    /\ RenderIdle

Render ==
    /\ html = Pending
    /\ html' = _render_html_from_layout(layout_data, context)
    /\ UNCHANGED <<layout_data, context, dimVars, envVars, dbVars>>

NextRender == Render

SpecRender == InitRender /\ [][NextRender]_vars

(***************************************************************************)
(* Claims about asset resolution                                           *)
(***************************************************************************)
Rendered == html # Pending /\ html.t = "return"

BackgroundImage == Get(layout_data, "backgroundImage", None)

Elements == Get(layout_data, "elements", <<>>)

\* the URL inside url("...") of the background-image rule
BackgroundUrl(rule) == SubSeq(rule[1].v, 2, Len(rule[1].v) - 1)

\* two URLs are the same reference: equal, or file:// URIs of the same file
SameUrl(a, b) ==
    \/ a = b
    \/ /\ a # <<>> /\ b # <<>> /\ a[1] = "file:" /\ b[1] = "file:"
       /\ Collapse(Components(Tail(a)), <<>>) = Collapse(Components(Tail(b)), <<>>)

\* C7: the URL emitted in the background-image rule equals the src that an
\* image element with the same reference gets, for every background
\* reference and filesystem state.
C7_BackgroundResolvedLikeImage ==
    (Rendered /\ Truthy(BackgroundImage)) =>
        /\ html.v.background_style # <<>>
        /\ SameUrl(BackgroundUrl(html.v.background_style), ImageSrc(BackgroundImage.s))

\* the names of the reference's path after a prefix it starts with
NamesAfter(ref, prefix) ==
    LET parsed == urlparse(ref) IN
    IF parsed.ok /\ StartsWith(parsed.path, prefix)
    THEN SomePath(Components(SubSeq(parsed.path, Len(prefix) + 1, Len(parsed.path))))
    ELSE NoPath

\* the background reference lies under the static prefix and the file it
\* names under the static root exists
BackgroundFound(ref) ==
    /\ NamesAfter(ref, STATIC_PREFIX).some
    /\ exists(static_root \o BuildTail(NamesAfter(ref, STATIC_PREFIX).p))

\* C8: background handling has exactly three outcomes: a backgroundImage
\* under the static prefix whose file exists gives a background-image rule
\* with the file:// URI of that file, cover and center; a backgroundImage
\* that does not resolve to an existing file gives the same rule with the
\* raw reference; an absent or empty backgroundImage gives no rule.
C8_BackgroundThreeOutcomes ==
    Rendered =>
        LET bg == BackgroundImage
            rule == html.v.background_style
            sized == /\ Len(rule) = 3
                     /\ rule[2] = Decl("background-size", <<"cover">>)
                     /\ rule[3] = Decl("background-position", <<"center">>)
                     /\ rule[1].p = "background-image"
        IN IF ~Truthy(bg) THEN rule = <<>>
           ELSE IF BackgroundFound(bg.s)
           THEN /\ sized
                /\ BackgroundUrl(rule) # bg.s
                /\ StartsWith(BackgroundUrl(rule), <<"file:", "/", "/">>)
                /\ Components(Tail(BackgroundUrl(rule)))
                     = Components(static_root) \o NamesAfter(bg.s, STATIC_PREFIX).p
           ELSE sized /\ BackgroundUrl(rule) = bg.s

C8_Witness ==
    /\ Rendered
    /\ BackgroundImage = PyString(<<"/", "static", "/", "bg.png">>)
    /\ BackgroundUrl(html.v.background_style) = FileUri(join(static_root, <<"bg.png">>))

\* the file a file:// URI names lies under root
UriUnder(uri, root) ==
    LET names == Collapse(Components(Tail(uri)), <<>>)
        rootNames == Components(root)
    IN Len(names) >= Len(rootNames) /\ SubSeq(names, 1, Len(rootNames)) = rootNames

IsFileUri(src) == src # <<>> /\ src[1] = "file:"

\* C9: a reference under the static prefix is rewritten to a path under the
\* static root and one under the uploads prefix to a path under the upload
\* directory ('..' segments included), so no file:// URI emitted for an
\* image element or the background names a file outside those two roots.
C9_FileUriUnderRoots ==
    Rendered =>
        /\ \A i \in 1..Len(html.v.elements_html) :
              LET frag == html.v.elements_html[i] IN
              (frag.tag = "img" /\ IsFileUri(frag.src)) =>
                  \/ UriUnder(frag.src, static_root)
                  \/ UriUnder(frag.src, UploadRoot)
        /\ (html.v.background_style # <<>>
                /\ IsFileUri(BackgroundUrl(html.v.background_style))) =>
              \/ UriUnder(BackgroundUrl(html.v.background_style), static_root)
              \/ UriUnder(BackgroundUrl(html.v.background_style), UploadRoot)

AllImages ==
    \A i \in 1..Len(Elements) :
        /\ Get(Elements[i], "type", None) = TypeImage
        /\ Get(Elements[i], "content", None) # None

\* the path an image reference resolves to: the names of its root followed
\* by the names after the prefix, '.' and '..' collapsed
ResolvedPath(ref) ==
    IF NamesAfter(ref, STATIC_PREFIX).some
    THEN SomePath(Build(Collapse(Components(static_root)
                                 \o NamesAfter(ref, STATIC_PREFIX).p, <<>>)))
    ELSE IF NamesAfter(ref, UPLOADS_PREFIX).some /\ upload_folder # None
    THEN SomePath(Build(Collapse(Components(upload_folder.s)
                                 \o NamesAfter(ref, UPLOADS_PREFIX).p, <<>>)))
    ELSE NoPath

OnDisk(p) == p \in files \cup Dirs

\* C10: the src of an image element is the file:// URI of the resolved path
\* iff the content's path starts with the static or the uploads prefix (the
\* uploads root being configured) and the resolved path exists on disk; in
\* every other case, a resolution error included, the src is the original
\* content, and the <img> is emitted at (x, y) either way.
C10_ImageSrcResolvedIffExists ==
    (Rendered /\ AllImages) =>
        /\ Len(html.v.elements_html) = Len(Elements)
        /\ \A i \in 1..Len(Elements) :
              LET el == Elements[i]
                  frag == html.v.elements_html[i]
                  resolved == ResolvedPath(el.content.s)
                  found == resolved.some /\ OnDisk(resolved.p)
              IN /\ frag.tag = "img"
                 /\ SubSeq(frag.style, 1, 3) = PositionStyle(el.x, el.y)
                 /\ found <=> (frag.src # el.content.s)
                 /\ found => frag.src = FileUri(resolved.p)

C10_Witness ==
    /\ Rendered /\ AllImages /\ Len(Elements) = 1
    /\ Elements[1].content = PyString(<<"/", "uploads", "/", "a.png">>)
    /\ html.v.elements_html[1].src = FileUri(join(UploadRoot, <<"a.png">>))

(***************************************************************************)
(* Claims about the elements of a rendered layout                          *)
(***************************************************************************)
Returned == html # Pending

KnownTypes == {TypeText, TypeVariable, TypeImage}

TypeOf(el) == Get(el, "type", None)

ContentOf(el) == Get(el, "content", PyString(<<>>))

\* the outcome of rendering the element in a layout of its own
Alone(el) == RenderElement(el, context)

\* the fragments of the elements rendered one by one, in list order; an
\* element that cannot be rendered gives none
RECURSIVE FragmentsOf(_)
FragmentsOf(elements) ==
    IF elements = <<>> THEN <<>>
    ELSE (IF Alone(Head(elements)).t = "return" THEN Alone(Head(elements)).v ELSE <<>>)
         \o FragmentsOf(Tail(elements))

\* C11: one bad element never blocks the rest: whatever the element list
\* (malformed or missing style dimensions, unresolvable variable or image,
\* unknown type), the render raises nothing and its output holds, for every
\* other element, exactly the fragment that element gives when rendered
\* alone.
C11_BadElementNeverBlocks ==
    Returned =>
        /\ html.t = "return"
        /\ html.v.elements_html = FragmentsOf(Elements)

AllUnknownType ==
    /\ Elements # <<>>
    /\ \A i \in 1..Len(Elements) : TypeOf(Elements[i]) \notin KnownTypes

\* C12: an element whose type is outside {text, variable, image}, an absent
\* type included, whatever its other fields hold, contributes nothing to
\* the output and raises nothing.
C12_UnknownTypeContributesNothing ==
    (Returned /\ AllUnknownType) =>
        /\ html.t = "return"
        /\ html.v.elements_html = <<>>

\* the element is a variable with a token, and the key the token names
IsVariable(el) == TypeOf(el) = TypeVariable /\ ContentOf(el) # None

KeyOf(el) == Strip(RemoveBraces(ContentOf(el).s))

AllVariablesAbsent ==
    /\ Elements # <<>>
    /\ \A i \in 1..Len(Elements) :
          IsVariable(Elements[i]) /\ KeyOf(Elements[i]) \notin DOMAIN context

AllVariablesBound ==
    /\ Elements # <<>>
    /\ \A i \in 1..Len(Elements) :
          /\ IsVariable(Elements[i])
          /\ KeyOf(Elements[i]) \in DOMAIN context
          /\ KeyOf(Elements[i]) # SIGNATURE

XOf(el) == Get(el, "x", PyInt(FALSE, 0))

YOf(el) == Get(el, "y", PyInt(FALSE, 0))

\* the first three declarations: position: absolute; left: x px; top: y px
PositionedAt(style, el) ==
    /\ Len(style) >= 3
    /\ style[1] = Decl("position", <<"absolute">>)
    /\ style[2] = Decl("left", PyStr(XOf(el)) \o <<"p", "x">>)
    /\ style[3] = Decl("top", PyStr(YOf(el)) \o <<"p", "x">>)

\* C14: a variable element whose key (the content without '{{' and '}}',
\* trimmed) is in the context and is not signature gives an absolutely
\* positioned block at left: x px, top: y px whose text is the context's
\* value for the key.
C14_BoundVariableText ==
    (Rendered /\ AllVariablesBound) =>
        /\ Len(html.v.elements_html) = Len(Elements)
        /\ \A i \in 1..Len(Elements) :
              /\ html.v.elements_html[i].tag = "div"
              /\ PositionedAt(html.v.elements_html[i].style, Elements[i])
              /\ html.v.elements_html[i].text = context[KeyOf(Elements[i])].s

C14_Witness ==
    /\ Rendered /\ AllVariablesBound /\ Len(Elements) = 1
    /\ ContentOf(Elements[1]) = PyString(TOKEN_PRENOM_SPACED)
    /\ html.v.elements_html[1].text = <<"Alice">>

\* the declared value of a property in a style, <<>> when it has no rule
RuleOf(style, prop) ==
    LET at == {i \in 1..Len(style) : style[i].p = prop} IN
    IF at = {} THEN <<>> ELSE style[CHOOSE i \in at : TRUE].v

\* the resolved dimension of the element: "auto" or the pixel digits
Resolved(el, dim) ==
    parse_dim(Get(Get(el, "style", EmptyStyle), dim, PyString(AUTO))).v

\* the rule of a sized <img>: the resolved pixels or the default
SizedOr(el, dim, default) ==
    IF Resolved(el, dim) # AUTO THEN Resolved(el, dim) \o <<"p", "x">> ELSE default

\* every element is an image or a signature variable whose value is set
AllImagesOrSignatures ==
    /\ Elements # <<>>
    /\ \A i \in 1..Len(Elements) :
          \/ TypeOf(Elements[i]) = TypeImage /\ ContentOf(Elements[i]) # None
          \/ /\ IsVariable(Elements[i])
             /\ KeyOf(Elements[i]) = SIGNATURE
             /\ SIGNATURE \in DOMAIN context
             /\ context[SIGNATURE].s # <<>>

IsUrl(v) == v # <<>> /\ v[1] \in Schemes

\* an <img> at (x, y) with these width and height rules
SizedImg(frag, el, width, height) ==
    /\ frag.tag = "img"
    /\ PositionedAt(frag.style, el)
    /\ RuleOf(frag.style, "width") = width
    /\ RuleOf(frag.style, "height") = height

AllBlocks ==
    /\ Elements # <<>>
    /\ \A i \in 1..Len(Elements) :
          \/ TypeOf(Elements[i]) = TypeText
          \/ /\ IsVariable(Elements[i])
             /\ ~(/\ KeyOf(Elements[i]) = SIGNATURE
                  /\ Get(context, SIGNATURE, ContentOf(Elements[i])).s # <<>>)

\* C16: a text or variable block has a width rule iff its resolved width is
\* not "auto", and a height rule iff its resolved height is not "auto"; with
\* style {width: "150px", height: null} the style holds 'width: 150px;' and
\* no height rule.
C16_SizeRuleIffNotAuto ==
    (Rendered /\ AllBlocks) =>
        /\ Len(html.v.elements_html) = Len(Elements)
        /\ \A i \in 1..Len(Elements) :
              /\ html.v.elements_html[i].tag = "div"
              /\ RuleOf(html.v.elements_html[i].style, "width") =
                    SizedOr(Elements[i], "width", <<>>)
              /\ RuleOf(html.v.elements_html[i].style, "height") =
                    SizedOr(Elements[i], "height", <<>>)
              /\ Get(Elements[i], "style", EmptyStyle)
                    = [width |-> PyString(<<"1", "5", "0", "p", "x">>), height |-> None]
                 => /\ RuleOf(html.v.elements_html[i].style, "width")
                         = <<"1", "5", "0", "p", "x">>
                    /\ RuleOf(html.v.elements_html[i].style, "height") = <<>>

C16_Witness ==
    /\ Rendered /\ AllBlocks /\ Len(Elements) = 1
    /\ Get(Elements[1], "style", EmptyStyle)
          = [width |-> PyString(<<"1", "5", "0", "p", "x">>), height |-> None]
    /\ RuleOf(html.v.elements_html[1].style, "width") = <<"1", "5", "0", "p", "x">>
    /\ RuleOf(html.v.elements_html[1].style, "height") = <<>>

\* C17: the elements part of the output is the concatenation, in list
\* order, of each element's own fragment.
C17_FragmentsInListOrder ==
    Rendered => html.v.elements_html = FragmentsOf(Elements)

C17_Witness ==
    /\ Rendered /\ Len(Elements) = 2
    /\ Len(html.v.elements_html) = 2
    /\ html.v.elements_html[1] # html.v.elements_html[2]
    /\ <<html.v.elements_html[1]>> = Alone(Elements[1]).v
    /\ <<html.v.elements_html[2]>> = Alone(Elements[2]).v

\* C18: with an empty element list, or no elements key, and no background,
\* the render raises nothing and returns the document with the fixed
\* 794 x 1123 px container, no element fragment and no background rule.
C18_EmptyLayoutCanvasShell ==
    (Returned /\ Elements = <<>> /\ ~Truthy(BackgroundImage)) =>
        /\ html.t = "return"
        /\ html.v.container.width = 794
        /\ html.v.container.height = 1123
        /\ html.v.elements_html = <<>>
        /\ html.v.background_style = <<>>

C18_Witness ==
    /\ Returned
    /\ "elements" \notin DOMAIN layout_data
    /\ html.t = "return"
    /\ html.v.elements_html = <<>>

(***************************************************************************)
(* Spec: templates, events, registrations and certificate generation       *)
(***************************************************************************)
MaxTemplates == 1
MaxEvents == 1
MaxRegistrations == 1

\* Event.template_id is nullable: 0 stands for None
NoTemplate == 0

TemplateIds == 1..MaxTemplates
EventIds == 1..MaxEvents
RegistrationIds == 1..MaxRegistrations

Emails == {"ana@example.org", "bob@example.org"}

SIGNATURE_FILE == <<"sig.png">>

\* create_template: layout_data={"elements": []}
BlankLayout == [elements |-> <<>>]

\* layouts the editor saves through update_layout
SavedLayouts ==
    { [elements |->
         << [type |-> TypeText, x |-> X10, y |-> Y20,
             content |-> PyString(<<"Certificate">>),
             style |-> [width |-> PyString(<<"1", "5", "0", "p", "x">>), height |-> None]],
            [type |-> TypeVariable, x |-> X10, y |-> Y20,
             content |-> PyString(TOKEN_PRENOM)] >>,
       backgroundImage |-> PyString(<<"/", "static", "/", "bg.png">>)],
      [elements |->
         << [type |-> TypeText, x |-> X10, y |-> Y20,
             content |-> PyString(<<"Certificate">>),
             style |-> [width |-> PyString(INF)]] >>] }

\* the next primary key of a table
NextId(rows) ==
    IF DOMAIN rows = {} THEN 1
    ELSE 1 + (CHOOSE i \in DOMAIN rows : \A j \in DOMAIN rows : j <= i)

Insert(rows, id, row) == [i \in DOMAIN rows \cup {id} |-> IF i = id THEN row ELSE rows[i]]

Delete(rows, id) == [i \in DOMAIN rows \ {id} |-> rows[i]]

MSG_UNAVAILABLE == "PDF generation is currently unavailable."
MSG_FALLBACK_FAILED == "Certificate generation failed (Fallback)"
MSG_TEMPLATE_NOT_FOUND == "Assigned template not found"

\* the outcome of a certificate entry point: a return value or an exception,
\* and the renderer the call reached ("none" when it reached neither)
Out(result, path) == [result |-> result, path |-> path]

NotFound == Raise("NotFound", "404")

\* EventService._generate_certificate_pdf: the flow-layout PDF; the
\* signature paragraph embeds the file, which must be readable
fallback_certificate_pdf(registration, event) ==
    IF event.signature_filename # None /\ ~Truthy(upload_folder)
    THEN Raise("KeyError", "UPLOAD_FOLDER")
    ELSE IF event.signature_filename # None
            /\ ~exists(join(upload_folder.s, event.signature_filename.s))
    THEN Raise("OSError", "Cannot open resource")
    ELSE Return([kind |-> "pdf", renderer |-> "fallback",
                 text |-> <<registration.first_name, registration.last_name, event.title>>])

\* a context["signature"] built without os.path.exists(sig_path)
SignatureUrl_unchecked(upload, signature_filename) ==
    IF signature_filename # None /\ signature_filename.s # <<>>
    THEN IF Truthy(upload)
         THEN FileUri(join(upload.s, signature_filename.s))
         ELSE <<>>
    ELSE <<>>

\* lines 126-145 of generate_certificate_pdf: context["signature"]
SignatureUrl(upload, signature_filename) ==
    IF signature_filename # None /\ signature_filename.s # <<>>
    THEN IF Truthy(upload)
         THEN IF exists(join(upload.s, signature_filename.s))
              THEN FileUri(join(upload.s, signature_filename.s))
              ELSE <<>>
         ELSE <<>>
    ELSE <<>>

\* lines 115-145 of generate_certificate_pdf: the context
CertificateContext(event, user_registration) ==
    (<<"nom">> :> PyString(<<user_registration.last_name>>))
    @@ (<<"prenom">> :> PyString(<<user_registration.first_name>>))
    @@ (<<"date">> :> PyString(<<"03/11/2026">>))
    @@ (<<"event_name">> :> PyString(<<event.title>>))
    @@ (<<"organizer">> :> PyString(<<"Organizer">>))
    @@ (<<"eligible_hours">> :> PyString(<<"2.0">>))
    @@ (SIGNATURE :> PyString(SignatureUrl(upload_folder, event.signature_filename)))

\* lines 148-160 of generate_certificate_pdf: WeasyPrint writes the PDF of
\* the HTML
WritePdf(html_content) ==
    IF html_content.t = "raise" THEN html_content
    ELSE Return([kind |-> "pdf", renderer |-> "template", html |-> html_content.v])

\* lines 110-160 of generate_certificate_pdf: the template path
template_certificate_pdf(event, user_registration) ==
    IF event.template_id \notin DOMAIN templates
    THEN Raise("MeetingManagerError", MSG_TEMPLATE_NOT_FOUND)
    ELSE WritePdf(_render_html_from_layout(templates[event.template_id],
                                           CertificateContext(event, user_registration)))

\* lines 105-108 of generate_certificate_pdf: the fallback's bytes, or the
\* error when it returned None
FallbackResult(pdf_io) ==
    IF pdf_io.result.t = "raise" THEN pdf_io
    ELSE IF pdf_io.result.v # None THEN pdf_io
    ELSE Out(Raise("MeetingManagerError", MSG_FALLBACK_FAILED), pdf_io.path)

\* lines 672-680 of generate_certificate_service: except Exception returns
\* None
Swallow(pdf) == IF pdf.result.t = "raise" THEN Out(Return(None), pdf.path) ELSE pdf

RECURSIVE generate_certificate_pdf(_, _)
RECURSIVE generate_certificate_service(_)

\* CertificateService.generate_certificate_pdf(event_id, user_registration);
\* user_registration is a registration id
generate_certificate_pdf(event_id, user_registration) ==
    IF ~WEASYPRINT_AVAILABLE
    THEN Out(Raise("MeetingManagerError", MSG_UNAVAILABLE), "none")
    ELSE IF event_id \notin DOMAIN events THEN Out(NotFound, "none")
    ELSE IF events[event_id].template_id = NoTemplate
    THEN FallbackResult(generate_certificate_service(user_registration))
    ELSE Out(template_certificate_pdf(events[event_id], registrations[user_registration]),
             "template")

\* EventService.generate_certificate_service(registration_id); None is
\* returned for an unattended registration and for any exception
generate_certificate_service(registration_id) ==
    IF registration_id \notin DOMAIN registrations THEN Out(NotFound, "none")
    ELSE IF ~registrations[registration_id].attended THEN Out(Return(None), "none")
    ELSE IF registrations[registration_id].event_id \notin DOMAIN events
    THEN Out(NotFound, "none")
    ELSE IF events[registrations[registration_id].event_id].template_id # NoTemplate
    THEN Swallow(generate_certificate_pdf(registrations[registration_id].event_id,
                                          registration_id))
    ELSE Swallow(Out(fallback_certificate_pdf(
                         registrations[registration_id],
                         events[registrations[registration_id].event_id]),
                     "fallback"))

FLASH_NOT_AVAILABLE == "Certificate not available or attendance not confirmed."
FLASH_ERROR_PREFIX == "Error generating certificate: "
FLASH_ERROR == "Error generating certificate."
FLASH_NOT_CONFIRMED == "Sorry, your presence was not confirmed by the organizer."

Response(body) == [status |-> 200, mimetype |-> "application/pdf", body |-> body]

\* flash(message + detail, category)
Flash(message, detail, category) ==
    [message |-> message, detail |-> detail, category |-> category]

\* redirect(url_for('events.event', ...)) after a flash
Redirect(flash) == [status |-> 302, flash |-> flash]

\* render_template('request_certificate.html') after a flash
Page(flash) == [status |-> 200, mimetype |-> "text/html", flash |-> flash]

Abort(code) == [status |-> code]

\* the registration a query's filter selects (.first()), None when none
First(matching) ==
    IF matching = {} THEN 0
    ELSE CHOOSE i \in matching : \A j \in matching : i <= j

\* lines 117-132 of download_certificate: the PDF response, or the flashed
\* error
DownloadResult(pdf_bytes) ==
    IF pdf_bytes.t = "raise"
    THEN Redirect(Flash(FLASH_ERROR_PREFIX, pdf_bytes.msg, "danger"))
    ELSE Response(pdf_bytes.v)

\* a download_certificate that does not look at registration.attended
DownloadFor_unchecked(event_id, registration) ==
    IF registration = 0
    THEN Redirect(Flash(FLASH_NOT_AVAILABLE, "", "warning"))
    ELSE DownloadResult(generate_certificate_pdf(event_id, registration).result)

\* lines 112-121 of download_certificate, with the user's registration (the
\* lookup by user_id of line 114 finds none: no registration has a user_id)
DownloadFor(event_id, registration) ==
    IF registration = 0 \/ ~registrations[registration].attended
    THEN Redirect(Flash(FLASH_NOT_AVAILABLE, "", "warning"))
    ELSE DownloadResult(generate_certificate_pdf(event_id, registration).result)

\* routes/certificates.py download_certificate, for the user with this email
\* (the event is visible: event_access_required only checks it exists)
download_certificate(event_id, email) ==
    IF event_id \notin DOMAIN events THEN Abort(404)
    ELSE DownloadFor(event_id,
                     First({r \in DOMAIN registrations :
                              registrations[r].event_id = event_id
                              /\ registrations[r].email = email}))

\* request_certificate: the PDF response, or the flashed error
RequestResult(pdf_data) ==
    IF pdf_data.t = "raise" THEN Abort(404)
    ELSE IF pdf_data.v # None THEN Response(pdf_data.v)
    ELSE Page(Flash(FLASH_ERROR, "", "danger"))

\* request_certificate, with the registration the form selects
RequestFor(registration) ==
    IF registration # 0 /\ registrations[registration].attended
    THEN RequestResult(generate_certificate_service(registration).result)
    ELSE Page(Flash(FLASH_NOT_CONFIRMED, "", "danger"))

\* routes/events.py request_certificate (POST)
request_certificate(email, unique_key) ==
    RequestFor(First({r \in DOMAIN registrations :
                        registrations[r].email = email
                        /\ registrations[r].unique_key = unique_key}))

Done(op) == [op |-> op]

SpecIdle ==
    /\ dim_val = None /\ dim_res = Pending
    /\ layout_data = NoLayout /\ context = NoContext /\ html = Pending

Init ==
    /\ WEASYPRINT_AVAILABLE \in BOOLEAN
    /\ os_name = "posix"
    /\ upload_folder = PyString(UploadRoot)
    /\ files \in {{}, {join(UploadRoot, SIGNATURE_FILE), join(static_root, <<"bg.png">>)}}
    /\ templates = NoRows /\ events = NoRows /\ registrations = NoRows
    /\ last = Done("init")
    /\ SpecIdle

Frame == UNCHANGED <<dimVars, renderVars, envVars, WEASYPRINT_AVAILABLE>>

\* CertificateService.create_template
CreateTemplate ==
    /\ NextId(templates) \in TemplateIds
    /\ templates' = Insert(templates, NextId(templates), BlankLayout)
    /\ last' = Done("create_template")
    /\ UNCHANGED <<events, registrations>> /\ Frame

\* an update_layout whose new layout reaches every template that holds the
\* layout of the updated one
UpdateLayout_shared ==
    \E template_id \in DOMAIN templates, layout \in SavedLayouts :
        /\ templates' = [t \in DOMAIN templates |->
                            IF templates[t] = templates[template_id]
                            THEN layout ELSE templates[t]]
        /\ last' = Done("update_layout")
        /\ UNCHANGED <<events, registrations>> /\ Frame

\* CertificateService.update_layout
UpdateLayout ==
    \E template_id \in DOMAIN templates, layout \in SavedLayouts :
        /\ templates' = [templates EXCEPT ![template_id] = layout]
        /\ last' = Done("update_layout")
        /\ UNCHANGED <<events, registrations>> /\ Frame

\* routes/certificates.py delete_template: the session deletes the row and
\* clears template_id of the events the Event.template backref loads
DeleteTemplate ==
    \E template_id \in DOMAIN templates :
        /\ templates' = Delete(templates, template_id)
        /\ events' = [e \in DOMAIN events |->
                        IF events[e].template_id = template_id
                        THEN [events[e] EXCEPT !.template_id = NoTemplate]
                        ELSE events[e]]
        /\ last' = Done("delete_template")
        /\ UNCHANGED registrations /\ Frame

\* EventService.create_event_service: template_id is the form's value, not
\* checked against the templates
CreateEvent ==
    \E template_id \in {NoTemplate} \cup TemplateIds,
       signature_filename \in {None, PyString(SIGNATURE_FILE)} :
        /\ NextId(events) \in EventIds
        /\ events' = Insert(events, NextId(events),
                            [title |-> "Meeting", template_id |-> template_id,
                             signature_filename |-> signature_filename])
        /\ last' = Done("create_event_service")
        /\ UNCHANGED <<templates, registrations>> /\ Frame

\* EventService.update_event_service, line 265
UpdateEvent ==
    \E event_id \in DOMAIN events, template_id \in {NoTemplate} \cup TemplateIds :
        /\ events' = [events EXCEPT ![event_id].template_id = template_id]
        /\ last' = Done("update_event_service")
        /\ UNCHANGED <<templates, registrations>> /\ Frame

\* EventService.register_for_event_service: a new, unattended registration
Register ==
    \E event_id \in DOMAIN events, email \in Emails :
        /\ NextId(registrations) \in RegistrationIds
        /\ \A r \in DOMAIN registrations :
              ~(registrations[r].event_id = event_id /\ registrations[r].email = email)
        /\ registrations' =
              Insert(registrations, NextId(registrations),
                     [event_id |-> event_id, email |-> email,
                      first_name |-> "Alice", last_name |-> "Martin",
                      unique_key |-> NextId(registrations), attended |-> FALSE])
        /\ last' = Done("register_for_event_service")
        /\ UNCHANGED <<templates, events>> /\ Frame

\* EventService.mark_attendance_service, action update_attendance (and
\* check_all, when every registration of the event is ticked)
MarkAttendance ==
    \E event_id \in DOMAIN events, ticked \in SUBSET DOMAIN registrations :
        /\ registrations' =
              [r \in DOMAIN registrations |->
                  IF registrations[r].event_id = event_id
                  THEN [registrations[r] EXCEPT !.attended = (r \in ticked)]
                  ELSE registrations[r]]
        /\ last' = Done("mark_attendance_service")
        /\ UNCHANGED <<templates, events>> /\ Frame

Call(op, args, out) == [op |-> op, args |-> args, out |-> out]

\* a caller invokes CertificateService.generate_certificate_pdf
CallGenerateCertificatePdf ==
    \E event_id \in EventIds, r \in DOMAIN registrations :
        /\ last' = Call("generate_certificate_pdf", <<event_id, r>>,
                        generate_certificate_pdf(event_id, r))
        /\ UNCHANGED <<templates, events, registrations>> /\ Frame

\* a caller invokes EventService.generate_certificate_service
CallGenerateCertificateService ==
    \E r \in RegistrationIds :
        /\ last' = Call("generate_certificate_service", <<r>>,
                        generate_certificate_service(r))
        /\ UNCHANGED <<templates, events, registrations>> /\ Frame

\* GET /event/<id>/download-certificate
DownloadCertificate ==
    \E event_id \in EventIds, email \in Emails :
        /\ last' = Call("download_certificate", <<event_id, email>>,
                        download_certificate(event_id, email))
        /\ UNCHANGED <<templates, events, registrations>> /\ Frame

\* POST /certificate
RequestCertificate ==
    \E email \in Emails, unique_key \in RegistrationIds :
        /\ last' = Call("request_certificate", <<email, unique_key>>,
                        request_certificate(email, unique_key))
        /\ UNCHANGED <<templates, events, registrations>> /\ Frame

Next ==
    \/ CreateTemplate
    \/ UpdateLayout
    \/ DeleteTemplate
    \/ CreateEvent
    \/ UpdateEvent
    \/ Register
    \/ MarkAttendance
    \/ CallGenerateCertificatePdf
    \/ CallGenerateCertificateService
    \/ DownloadCertificate
    \/ RequestCertificate

Spec == Init /\ [][Next]_vars

(***************************************************************************)
(* Claims on certificate generation, checked under Spec                    *)
(***************************************************************************)
\* the last step called one of these operations
Called(ops) == last.op \in ops

EntryPoints == {"generate_certificate_pdf", "generate_certificate_service"}

Routes == {"download_certificate", "request_certificate"}

\* the registration id an entry point was called with
EntryRegistration ==
    IF last.op = "generate_certificate_pdf" THEN last.args[2] ELSE last.args[1]

\* the registration a route selected for its user, 0 when none
RouteRegistration ==
    IF last.op = "download_certificate"
    THEN First({r \in DOMAIN registrations :
                  registrations[r].event_id = last.args[1]
                  /\ registrations[r].email = last.args[2]})
    ELSE First({r \in DOMAIN registrations :
                  registrations[r].email = last.args[1]
                  /\ registrations[r].unique_key = last.args[2]})

\* an entry point was called for an attended registration and its own event
AttendedEntryCall ==
    /\ Called(EntryPoints)
    /\ EntryRegistration \in DOMAIN registrations
    /\ registrations[EntryRegistration].attended
    /\ registrations[EntryRegistration].event_id \in DOMAIN events
    /\ last.op = "generate_certificate_pdf"
          => last.args[1] = registrations[EntryRegistration].event_id

EntryEvent == events[registrations[EntryRegistration].event_id]

\* a route was requested by a user whose attendance is confirmed
AttendedRouteCall ==
    /\ Called(Routes)
    /\ RouteRegistration # 0
    /\ registrations[RouteRegistration].attended
    /\ registrations[RouteRegistration].event_id \in DOMAIN events

RouteEvent == events[registrations[RouteRegistration].event_id]

\* nothing of the event stops the flow-layout renderer itself
FallbackCanRender(event) ==
    event.signature_filename # None
        => exists(join(upload_folder.s, event.signature_filename.s))

\* the call returned PDF bytes
ReturnedBytes(result) == result.t = "return" /\ result.v # None

\* C3: with WEASYPRINT_AVAILABLE false, for an attended registration of an
\* event with no template, both generate_certificate_pdf and
\* generate_certificate_service still return the fallback PDF bytes.
C3_FallbackWithoutWeasyprint ==
    (/\ AttendedEntryCall
     /\ ~WEASYPRINT_AVAILABLE
     /\ EntryEvent.template_id = NoTemplate
     /\ FallbackCanRender(EntryEvent))
    => /\ ReturnedBytes(last.out.result)
       /\ last.out.result.v.renderer = "fallback"
       /\ last.out.path = "fallback"

\* C4: for an attended registration, from either entry point, generation
\* takes the fallback path and returns PDF bytes if and only if the event's
\* template_id is unset, and takes the template path if and only if it is
\* set.
C4_RendererSelectedByTemplate ==
    (AttendedEntryCall /\ FallbackCanRender(EntryEvent))
    => /\ (last.out.path = "fallback" /\ ReturnedBytes(last.out.result))
             <=> EntryEvent.template_id = NoTemplate
       /\ last.out.path = "template" <=> EntryEvent.template_id # NoTemplate

\* C5: with the PDF runtime unavailable, a template-path request through
\* either route answers with the "unavailable" error itself: no PDF, no
\* generic message, no failure of the request.
C5_UnavailableReachesCaller ==
    (/\ AttendedRouteCall
     /\ ~WEASYPRINT_AVAILABLE
     /\ RouteEvent.template_id # NoTemplate)
    => /\ "flash" \in DOMAIN last.out
       /\ last.out.flash.detail = MSG_UNAVAILABLE

\* the exception generate_certificate_pdf raises when the runtime is missing
UnavailableError == Raise("MeetingManagerError", MSG_UNAVAILABLE)

\* C6: when the event's assigned template has no record, certificate
\* generation raises an error to its caller, neither bytes nor the default
\* certificate, and the error's type is neither the generic one nor that of
\* the "rendering unavailable" error.
C6_MissingTemplateDistinguishable ==
    (/\ AttendedEntryCall
     /\ WEASYPRINT_AVAILABLE
     /\ EntryEvent.template_id # NoTemplate
     /\ EntryEvent.template_id \notin DOMAIN templates)
    => /\ last.out.result.t = "raise"
       /\ last.out.result.exc \notin {"Exception", UnavailableError.exc}

(***************************************************************************)
(* SpecSession: renders that follow one another in one server process,     *)
(* the layout, the recipient and the uploaded files changing in between    *)
(***************************************************************************)
MaxRenders == 3

\* a layout whose output depends on the context and on the files, and the
\* blank layout
SignedLayout ==
    [elements |->
        << ImageElement(<<"/", "uploads", "/">> \o SIGNATURE_FILE, EmptyStyle),
           [type |-> TypeVariable, x |-> X10, y |-> Y20,
            content |-> PyString(TOKEN_PRENOM)] >>]

SessionLayouts == {SignedLayout, BlankLayout}

SessionContexts ==
    { (<<"prenom">> :> PyString(<<"Alice">>)), (<<"prenom">> :> PyString(<<"Bob">>)) }

SignaturePath == join(UploadRoot, SIGNATURE_FILE)

\* what a render reads
Inputs ==
    [layout_data |-> layout_data, context |-> context, files |-> files,
     upload_folder |-> upload_folder, os_name |-> os_name]

\* the renders so far, and the outcome of the last generate_certificate_pdf
Session(renders, pdf) == [renders |-> renders, pdf |-> pdf]

InitSession ==
    /\ os_name = "posix"
    /\ upload_folder = PyString(UploadRoot)
    /\ files = {}
    /\ WEASYPRINT_AVAILABLE = TRUE
    /\ layout_data \in SessionLayouts
    /\ context \in SessionContexts
    /\ html = Pending
    /\ templates = Insert(NoRows, 1, SignedLayout)
    /\ events = Insert(NoRows, 1, [title |-> "Meeting", template_id |-> 1,
                                   signature_filename |-> PyString(SIGNATURE_FILE)])
    /\ registrations = Insert(NoRows, 1,
                              [event_id |-> 1, email |-> "ana@example.org",
                               first_name |-> "Alice", last_name |-> "Martin",
                               unique_key |-> 1, attended |-> TRUE])
    /\ last = Session(<<>>, Pending)
    /\ dim_val = None /\ dim_res = Pending

\* the editor's layout changes (save_template_layout hands the next layout)
EditLayout ==
    \E layout \in SessionLayouts \ {layout_data} :
        /\ layout_data' = layout
        /\ UNCHANGED <<context, html, dimVars, envVars, dbVars>>

\* the next certificate is for another recipient
NextRecipient ==
    \E ctx \in SessionContexts \ {context} :
        /\ context' = ctx
        /\ UNCHANGED <<layout_data, html, dimVars, envVars, dbVars>>

\* EventService._save_signature: signature_file.save(signature_path)
SaveSignature ==
    /\ SignaturePath \notin files
    /\ files' = files \cup {SignaturePath}
    /\ UNCHANGED <<upload_folder, os_name, renderVars, dimVars, dbVars>>

\* update_event_service: os.remove(old_signature_path)
RemoveSignature ==
    /\ SignaturePath \in files
    /\ files' = files \ {SignaturePath}
    /\ UNCHANGED <<upload_folder, os_name, renderVars, dimVars, dbVars>>

\* the output of a render that keeps the fragments of the render before it
Retained(prev, r) ==
    IF prev # Pending /\ prev.t = "return" /\ r.t = "return"
    THEN Return([r.v EXCEPT !.elements_html = prev.v.elements_html \o @])
    ELSE r

\* a render whose elements_html outlives the call
SessionRender_retained ==
    /\ Len(last.renders) < MaxRenders
    /\ html' = Retained(html, _render_html_from_layout(layout_data, context))
    /\ last' = [last EXCEPT !.renders = Append(@, [inputs |-> Inputs, html |-> html'])]
    /\ UNCHANGED <<layout_data, context, dimVars, envVars,
                   WEASYPRINT_AVAILABLE, templates, events, registrations>>

\* el.setdefault('style', {}) on every element
WithDefaultStyles(layout) ==
    IF "elements" \notin DOMAIN layout THEN layout
    ELSE [layout EXCEPT !.elements =
             [i \in 1..Len(@) |->
                 IF "style" \in DOMAIN @[i] THEN @[i]
                 ELSE [k \in DOMAIN @[i] \cup {"style"} |->
                          IF k = "style" THEN EmptyStyle ELSE @[i][k]]]]

\* a render that fills in the missing style of the elements it is given
SessionRender_setdefault ==
    /\ Len(last.renders) < MaxRenders
    /\ html' = _render_html_from_layout(layout_data, context)
    /\ layout_data' = WithDefaultStyles(layout_data)
    /\ last' = [last EXCEPT !.renders = Append(@, [inputs |-> Inputs, html |-> html'])]
    /\ UNCHANGED <<context, dimVars, envVars,
                   WEASYPRINT_AVAILABLE, templates, events, registrations>>

\* CertificateService._render_html_from_layout(layout_data, context): the
\* code assigns to its locals only
SessionRender ==
    /\ Len(last.renders) < MaxRenders
    /\ html' = _render_html_from_layout(layout_data, context)
    /\ last' = [last EXCEPT !.renders = Append(@, [inputs |-> Inputs, html |-> html'])]
    /\ UNCHANGED <<layout_data, context, dimVars, envVars,
                   WEASYPRINT_AVAILABLE, templates, events, registrations>>

\* CertificateService.generate_certificate_pdf(1, registration 1): it
\* queries, builds its own context and commits nothing
SessionGeneratePdf ==
    /\ last' = [last EXCEPT !.pdf = generate_certificate_pdf(1, 1).result]
    /\ UNCHANGED <<renderVars, dimVars, envVars,
                   WEASYPRINT_AVAILABLE, templates, events, registrations>>

NextSession ==
    \/ EditLayout
    \/ NextRecipient
    \/ SaveSignature
    \/ RemoveSignature
    \/ SessionRender
    \/ SessionGeneratePdf

SpecSession == InitSession /\ [][NextSession]_vars

C20_RenderChangesNothing ==
    [][(SessionRender \/ SessionGeneratePdf) =>
          UNCHANGED <<layout_data, context, files, upload_folder, os_name,
                      templates, events, registrations>>]_vars

C20_Witness ==
    /\ last.renders # <<>>
    /\ last.renders[Len(last.renders)].html.t = "return"
    /\ last.renders[Len(last.renders)].inputs.layout_data = layout_data
    /\ layout_data # BlankLayout
    /\ last.pdf # Pending
    /\ last.pdf.t = "return"
    /\ last.pdf.v.html.elements_html # <<>>

(***************************************************************************)
(* SpecAdmin: the administration of templates and events: duplication,     *)
(* layout updates and deletions, over rows that already exist              *)
(***************************************************************************)
MaxAdminTemplates == 3

\* a template with a saved layout, two events that use it (the first with an
\* uploaded signature) and one registration for each
InitAdmin ==
    /\ WEASYPRINT_AVAILABLE = TRUE
    /\ os_name = "posix"
    /\ upload_folder = PyString(UploadRoot)
    /\ files = {SignaturePath}
    /\ templates \in {Insert(NoRows, 1, layout) : layout \in SavedLayouts}
    /\ events = Insert(Insert(NoRows, 1, [title |-> "Meeting", template_id |-> 1,
                                          signature_filename |-> PyString(SIGNATURE_FILE)]),
                       2, [title |-> "Workshop", template_id |-> 1,
                           signature_filename |-> None])
    /\ registrations =
          Insert(Insert(NoRows, 1, [event_id |-> 1, email |-> "ana@example.org",
                                    first_name |-> "Alice", last_name |-> "Martin",
                                    unique_key |-> 1, attended |-> TRUE]),
                 2, [event_id |-> 2, email |-> "bob@example.org",
                     first_name |-> "Bob", last_name |-> "Durand",
                     unique_key |-> 2, attended |-> FALSE])
    /\ last = Done("init")
    /\ SpecIdle

\* routes/certificates.py duplicate_template: a new row whose layout_data is
\* the original's; the rows are stored apart (a JSON column each)
DuplicateTemplate ==
    \E template_id \in DOMAIN templates :
        /\ NextId(templates) <= MaxAdminTemplates
        /\ templates' = Insert(templates, NextId(templates), templates[template_id])
        /\ last' = Call("duplicate_template", <<template_id>>, NextId(templates))
        /\ UNCHANGED <<events, registrations>> /\ Frame

\* the uploaded files delete_event_service removes: the signature of the
\* event (the events of the model have no picture and no attachment)
EventFiles(event) ==
    IF event.signature_filename # None /\ Truthy(event.signature_filename)
    THEN {join(upload_folder.s, event.signature_filename.s)}
    ELSE {}

\* a delete_event_service that takes the template of the event with it
DeleteEvent_cascade ==
    \E event_id \in DOMAIN events :
        /\ registrations' = [r \in {i \in DOMAIN registrations :
                                      registrations[i].event_id # event_id} |->
                                registrations[r]]
        /\ files' = files \ EventFiles(events[event_id])
        /\ templates' = [t \in DOMAIN templates \ {events[event_id].template_id} |->
                            templates[t]]
        /\ events' = [e \in DOMAIN events \ {event_id} |->
                         IF events[e].template_id = events[event_id].template_id
                         THEN [events[e] EXCEPT !.template_id = NoTemplate]
                         ELSE events[e]]
        /\ last' = Call("delete_event_service", <<event_id>>, Return(None))
        /\ UNCHANGED <<upload_folder, os_name, WEASYPRINT_AVAILABLE, dimVars, renderVars>>

\* EventService.delete_event_service, one request alone: the registrations
\* of the event, its files and the event row go in one commit
DeleteEvent ==
    \E event_id \in DOMAIN events :
        /\ registrations' = [r \in {i \in DOMAIN registrations :
                                      registrations[i].event_id # event_id} |->
                                registrations[r]]
        /\ files' = files \ EventFiles(events[event_id])
        /\ events' = Delete(events, event_id)
        /\ last' = Call("delete_event_service", <<event_id>>, Return(None))
        /\ UNCHANGED <<templates, upload_folder, os_name, WEASYPRINT_AVAILABLE,
                       dimVars, renderVars>>

NextAdmin ==
    \/ DuplicateTemplate
    \/ UpdateLayout
    \/ DeleteTemplate
    \/ UpdateEvent
    \/ DeleteEvent

SpecAdmin == InitAdmin /\ [][NextAdmin]_vars

\* the step removes this template or changes its layout_data
Touched(t) == t \notin DOMAIN templates' \/ templates'[t] # templates[t]

\* C22: duplicate_template adds one template under an id no template had,
\* with a layout equal to the original's, and changes no other template;
\* afterwards an update_layout or a delete of one template leaves the
\* layout_data of every other template, its original or its copies
\* included, as it was.
C22_DuplicateIsIndependentCopy ==
    [][/\ DuplicateTemplate =>
            /\ last'.out \notin DOMAIN templates
            /\ DOMAIN templates' = DOMAIN templates \cup {last'.out}
            /\ templates'[last'.out] = templates[last'.args[1]]
            /\ \A t \in DOMAIN templates : templates'[t] = templates[t]
       /\ (UpdateLayout \/ DeleteTemplate) =>
            \A a, b \in DOMAIN templates :
                (a # b /\ Touched(a)) => ~Touched(b)]_vars

\* template 2 can only be a copy (no other step of SpecAdmin adds a
\* template): a copy was made, then one of the two was updated, and the
\* other kept the layout they shared
C22_Witness ==
    /\ last = Done("update_layout")
    /\ {1, 2} \subseteq DOMAIN templates
    /\ templates[1] # templates[2]

\* C23: delete_event_service deletes or changes no template, and every
\* event it leaves keeps its row, template_id included.
C23_TemplatesOutliveEvents ==
    [][DeleteEvent =>
          /\ templates' = templates
          /\ \A e \in DOMAIN events \ {last'.args[1]} :
                e \in DOMAIN events' /\ events'[e] = events[e]]_vars

\* one of the two events that used template 1 was deleted: the template and
\* the other event's reference are still there
C23_Witness ==
    /\ last.op = "delete_event_service"
    /\ 1 \in DOMAIN templates
    /\ \E e \in DOMAIN events : events[e].template_id = 1
    /\ Cardinality(DOMAIN events) = 1

(***************************************************************************)
(* SpecUpload: picture uploads, alone and inside create_event_service      *)
(***************************************************************************)
MaxUploads == 2

MaxPictureWidth == 1920
MaxPictureHeight == 1080

\* an uploaded file (werkzeug FileStorage): the name the client gave it and
\* what Pillow finds in it
Picture(filename, ext, image, mode, width, height) ==
    [filename |-> filename, ext |-> ext, image |-> image, mode |-> mode,
     width |-> width, height |-> height]

\* the picture of test_picture_upload.py: create_test_image, 1000x600 RGB
TestPicture == Picture("test_picture", ".jpg", TRUE, "RGB", 1000, 600)

Pictures ==
    { TestPicture,
      Picture("photo", ".png", TRUE, "RGBA", 1920, 1080),
      Picture("wide", ".jpg", TRUE, "RGB", 1921, 1080),
      Picture("tall", ".jpg", TRUE, "RGB", 1920, 1081),
      Picture("notes", ".jpg", FALSE, "RGB", 0, 0),
      Picture("scan", "", TRUE, "RGB", 1000, 600),
      Picture("logo", ".jpg", TRUE, "RGBA", 1000, 600),
      Picture("", "", FALSE, "RGB", 0, 0) }

\* bool(picture_file): a FileStorage is true when it has a filename
HasFile(picture_file) == picture_file # None /\ picture_file.filename # ""

\* Image.save(picture_path): Pillow takes the format from the extension
\* (ValueError when it knows none for it) and JPEG cannot hold an alpha
\* channel (OSError)
Writable(ext, mode) == ext = ".png" \/ (ext = ".jpg" /\ mode = "RGB")

\* str(uuid.uuid4()): a name no earlier call produced
Uuid(n) == "uuid" \o ToString(n)

\* line 795: f"{uuid.uuid4()}_picture{file_extension}"
PictureName(uuid, ext) == uuid \o "_picture" \o ext

\* line 796
PicturePath(filename) == join(upload_folder.s, <<filename>>)

\* what _save_picture returns and the upload folder it leaves
Saved(result, fs) == [result |-> result, files |-> fs]

\* a _save_picture that returns None for a picture over the limits and
\* leaves the saved upload where it is
ValidatePicture_leaves(picture_file, filename, saved) ==
    IF ~picture_file.image
    THEN Saved(Return(None), saved \ {PicturePath(filename)})
    ELSE IF picture_file.width > MaxPictureWidth \/ picture_file.height > MaxPictureHeight
    THEN Saved(Return(None), saved)
    ELSE IF ~Writable(picture_file.ext, picture_file.mode)
    THEN Saved(Return(None), saved \ {PicturePath(filename)})
    ELSE Saved(Return(PyString(<<filename>>)), saved)

\* lines 801-815 of _save_picture, the upload saved under filename
ValidatePicture(picture_file, filename, saved) ==
    IF ~picture_file.image
    THEN Saved(Return(None), saved \ {PicturePath(filename)})
    ELSE IF picture_file.width > MaxPictureWidth \/ picture_file.height > MaxPictureHeight
    THEN Saved(Return(None), saved \ {PicturePath(filename)})
    ELSE IF ~Writable(picture_file.ext, picture_file.mode)
    THEN Saved(Return(None), saved \ {PicturePath(filename)})
    ELSE Saved(Return(PyString(<<filename>>)), saved)

\* EventService._save_picture(picture_file), uuid4 giving uuid
_save_picture(picture_file, uuid) ==
    IF ~HasFile(picture_file) THEN Saved(Return(None), files)
    ELSE ValidatePicture(picture_file, PictureName(uuid, picture_file.ext),
                         files \cup {PicturePath(PictureName(uuid, picture_file.ext))})

\* pytz.common_timezones, as far as the forms go
common_timezones == {"UTC", "Europe/Paris"}

\* the dates datetime.strptime(data['date'], '%Y-%m-%d') parses
ParsedDates == {"2026-02-01"}

\* datetime.strptime(..., '%H:%M').time(), on the hour
Time(hour) == [t |-> "time", hour |-> hour]

\* EventService._validate_eligible_hours
_validate_eligible_hours(start_time, end_time, eligible_hours) ==
    IF start_time = None \/ end_time = None \/ eligible_hours <= 0 THEN TRUE
    ELSE eligible_hours <= end_time.hour - start_time.hour

\* the event data of test_event_creation_with_picture, with this picture
TestData(picture) ==
    [title |-> "Test Event with Picture", date |-> "2026-02-01",
     start_time |-> Time(10), end_time |-> Time(16), eligible_hours |-> 6,
     timezone |-> "UTC", picture |-> picture]

EventData ==
    {TestData(picture) : picture \in {None} \cup Pictures}
    \cup {[TestData(TestPicture) EXCEPT !.timezone = "Mars/Phobos"],
          [TestData(TestPicture) EXCEPT !.date = "01/02/2026"],
          [TestData(TestPicture) EXCEPT !.eligible_hours = 7]}

\* what create_event_service hands its caller, the upload folder and the
\* events it leaves
Created(result, fs, evs) == [result |-> result, files |-> fs, events |-> evs]

\* lines 145-203 of create_event_service: the picture, then the Event row;
\* the created Event object is returned
StoreEvent(data, has_picture, saved, event_id) ==
    IF has_picture /\ saved.result.v = None
    THEN Created(Raise("ValidationError", "Invalid picture file"), saved.files, events)
    ELSE Created(Return([t |-> "Event", id |-> event_id]),
                 saved.files,
                 Insert(events, event_id,
                        [title |-> data.title, template_id |-> NoTemplate,
                         signature_filename |-> None,
                         photo_filename |-> saved.result.v]))

\* EventService.create_event_service(data, creator_id)
create_event_service(data, uuid) ==
    IF data.timezone \notin common_timezones
    THEN Created(Raise("ValidationError", "Invalid timezone selected."), files, events)
    ELSE IF data.date \notin ParsedDates
    THEN Created(Raise("ValidationError", "Invalid date or time format"), files, events)
    ELSE IF data.eligible_hours > 0
            /\ ~_validate_eligible_hours(data.start_time, data.end_time,
                                         data.eligible_hours)
    THEN Created(Raise("ValidationError",
                       "Eligible hours must be within the event duration."), files, events)
    ELSE IF HasFile(data.picture)
    THEN StoreEvent(data, TRUE, _save_picture(data.picture, uuid), NextId(events))
    ELSE StoreEvent(data, FALSE, Saved(Return(None), files), NextId(events))

\* the data pass the checks of lines 124-143
ValidData(data) ==
    /\ data.timezone \in common_timezones
    /\ data.date \in ParsedDates
    /\ (data.eligible_hours > 0
          => _validate_eligible_hours(data.start_time, data.end_time, data.eligible_hours))

\* a call, its outcome and the number of uuids drawn so far
Upload(op, args, out, uuids) == [op |-> op, args |-> args, out |-> out, uuids |-> uuids]

\* the uuids drawn once this upload is handled
Drawn(picture_file) == IF HasFile(picture_file) THEN last.uuids + 1 ELSE last.uuids

InitUpload ==
    /\ WEASYPRINT_AVAILABLE = TRUE
    /\ os_name = "posix"
    /\ upload_folder = PyString(UploadRoot)
    /\ files = {}
    /\ templates = NoRows /\ events = NoRows /\ registrations = NoRows
    /\ last = Upload("init", None, None, 0)
    /\ SpecIdle

\* a caller invokes EventService._save_picture
SavePicture ==
    \E picture_file \in {None} \cup Pictures :
        /\ last.uuids < MaxUploads
        /\ files' = _save_picture(picture_file, Uuid(last.uuids + 1)).files
        /\ last' = Upload("_save_picture", picture_file,
                          _save_picture(picture_file, Uuid(last.uuids + 1)).result,
                          Drawn(picture_file))
        /\ UNCHANGED <<upload_folder, os_name, dimVars, renderVars,
                       WEASYPRINT_AVAILABLE, templates, events, registrations>>

\* a caller invokes EventService.create_event_service
CreateEventService ==
    \E data \in EventData :
        /\ last.uuids < MaxUploads
        /\ NextId(events) <= MaxUploads
        /\ files' = create_event_service(data, Uuid(last.uuids + 1)).files
        /\ events' = create_event_service(data, Uuid(last.uuids + 1)).events
        /\ last' = Upload("create_event_service", data,
                          create_event_service(data, Uuid(last.uuids + 1)).result,
                          IF ValidData(data) THEN Drawn(data.picture) ELSE last.uuids)
        /\ UNCHANGED <<upload_folder, os_name, dimVars, renderVars,
                       WEASYPRINT_AVAILABLE, templates, registrations>>

\* the test's clean-up: os.remove(upload_path) of a stored picture
RemovePicture ==
    \E path \in files :
        /\ files' = files \ {path}
        /\ last' = Upload("os.remove", path, None, last.uuids)
        /\ UNCHANGED <<upload_folder, os_name, dimVars, renderVars,
                       WEASYPRINT_AVAILABLE, templates, events, registrations>>

NextUpload ==
    \/ SavePicture
    \/ CreateEventService
    \/ RemovePicture

SpecUpload == InitUpload /\ [][NextUpload]_vars

\* the upload holds an image Pillow decodes
ValidImage(picture_file) == HasFile(picture_file) /\ picture_file.image

WithinLimits(picture_file) ==
    picture_file.width <= MaxPictureWidth /\ picture_file.height <= MaxPictureHeight

\* C24: _save_picture returns a filename exactly when it leaves a new file of
\* that name in the upload folder: a valid image of at most 1920x1080 gives a
\* filename whose file exists, an invalid or larger one gives None and the
\* upload folder as it was.
C24_SavePictureFilenameIffFile ==
    [][SavePicture =>
          /\ last'.out.v # None =>
                /\ PicturePath(last'.out.v.s[1]) \notin files
                /\ files' = files \cup {PicturePath(last'.out.v.s[1])}
          /\ last'.out.v = None => files' = files
          /\ (ValidImage(last'.args) /\ WithinLimits(last'.args)) <=> last'.out.v # None]_vars

\* a picture _save_picture stores
StoredPicture(picture_file) ==
    /\ ValidImage(picture_file) /\ WithinLimits(picture_file)
    /\ Writable(picture_file.ext, picture_file.mode)

\* C24 (amended): _save_picture returns a filename exactly when it leaves a
\* new file of that name in the upload folder: a valid image of at most
\* 1920x1080 that Pillow can write back under the extension of its filename
\* gives a filename whose file exists; an empty upload, an invalid or larger
\* image, and an image Pillow cannot write under that extension give None
\* and the upload folder as it was.
C24_SavePictureFilenameIffWritable ==
    [][SavePicture =>
          /\ last'.out.v # None =>
                /\ PicturePath(last'.out.v.s[1]) \notin files
                /\ files' = files \cup {PicturePath(last'.out.v.s[1])}
          /\ last'.out.v = None => files' = files
          /\ StoredPicture(last'.args) <=> last'.out.v # None]_vars

\* a picture wider than the limit was refused and left nothing, next to the
\* file of a picture stored before it
C24_Witness ==
    /\ last.op = "_save_picture"
    /\ HasFile(last.args) /\ last.args.image
    /\ last.args.width > MaxPictureWidth
    /\ last.out.v = None
    /\ files = {PicturePath(PictureName(Uuid(1), ".jpg"))}
    /\ last.uuids = 2

\* C25: create_event_service with valid data and a valid picture returns a
\* pair (success, message) with success true, and the event it stored has
\* the saved picture's filename as photo_filename.
C25_CreateEventReturnsSuccessPair ==
    (/\ last.op = "create_event_service"
     /\ ValidData(last.args)
     /\ StoredPicture(last.args.picture))
    => /\ last.out.t = "return"
       /\ last.out.v.t = "tuple"
       /\ Len(last.out.v.items) = 2
       /\ last.out.v.items[1] = TRUE
       /\ \E e \in DOMAIN events :
             /\ events[e].photo_filename # None
             /\ PicturePath(events[e].photo_filename.s[1]) \in files

(***************************************************************************)
(* SpecDelivery: registrations, attendance and certificate requests for    *)
(* one event whose template carries the organiser's signature              *)
(***************************************************************************)
\* a layout with the signature variable, sized and unsized, and the
\* recipient's first name
SignatureLayout ==
    [elements |->
        << [type |-> TypeVariable, x |-> X10, y |-> Y20,
            content |-> PyString(TOKEN_SIGNATURE)],
           [type |-> TypeVariable, x |-> X10, y |-> Y20,
            content |-> PyString(<<"{{", "signature", "}}">>),
            style |-> [width |-> PyString(<<"1", "5", "0", "p", "x">>)]],
           [type |-> TypeVariable, x |-> X10, y |-> Y20,
            content |-> PyString(TOKEN_PRENOM)] >>]

\* one template and one event, with or without the template, a signature
\* filename, the signature file, the upload folder setting and WeasyPrint
InitDelivery ==
    /\ WEASYPRINT_AVAILABLE \in BOOLEAN
    /\ os_name = "posix"
    /\ upload_folder \in {None, PyString(UploadRoot)}
    /\ files \in {{}, {SignaturePath}}
    /\ templates = Insert(NoRows, 1, SignatureLayout)
    /\ events \in {Insert(NoRows, 1, [title |-> "Meeting", template_id |-> template_id,
                                      signature_filename |-> signature_filename]) :
                      template_id \in {NoTemplate, 1},
                      signature_filename \in {None, PyString(SIGNATURE_FILE)}}
    /\ registrations = NoRows
    /\ last = Done("init")
    /\ SpecIdle

NextDelivery ==
    \/ Register
    \/ MarkAttendance
    \/ UpdateEvent
    \/ CallGenerateCertificatePdf
    \/ CallGenerateCertificateService
    \/ DownloadCertificate
    \/ RequestCertificate

SpecDelivery == InitDelivery /\ [][NextDelivery]_vars

\* the response carries PDF bytes
DeliveredBytes(response) == "body" \in DOMAIN response

\* C26: a delivery route answers with PDF bytes, and
\* generate_certificate_service returns bytes, only for a registration that
\* exists and whose attended flag is true, whichever renderer the event
\* selects.
C26_BytesOnlyForAttended ==
    /\ (Called(Routes) /\ DeliveredBytes(last.out))
          => /\ RouteRegistration # 0
             /\ registrations[RouteRegistration].attended
    /\ (last.op = "generate_certificate_service" /\ ReturnedBytes(last.out.result))
          => /\ last.args[1] \in DOMAIN registrations
             /\ registrations[last.args[1]].attended

\* a route delivered the template renderer's PDF to an attended participant
C26_Witness ==
    /\ Called(Routes)
    /\ DeliveredBytes(last.out)
    /\ last.out.body.renderer = "template"
    /\ registrations[RouteRegistration].attended

\* the fragments of the PDF's HTML, one per element of the signature layout
PipelineFragments == last.out.result.v.html.elements_html

\* the call went through lines 114-160 of generate_certificate_pdf
ThroughPipeline ==
    /\ Called(EntryPoints)
    /\ ReturnedBytes(last.out.result)
    /\ last.out.path = "template"

\* the event of the call
PipelineEvent ==
    IF last.op = "generate_certificate_pdf" THEN events[last.args[1]]
    ELSE events[registrations[last.args[1]].event_id]

\* the event has a signature filename, the upload folder is configured and
\* the signature file exists
SignatureOnDisk(event) ==
    /\ event.signature_filename # None
    /\ Truthy(event.signature_filename)
    /\ Truthy(upload_folder)
    /\ join(upload_folder.s, event.signature_filename.s) \in files

\* C28: in the PDF of the template pipeline every signature variable is an
\* <img> whose src is the file:// URI of the signature file when the event
\* has a signature filename, the upload folder is configured and the file
\* exists, and a text block with empty text in every other case.
C28_SignatureImageIffFileExists ==
    ThroughPipeline =>
        \A i \in 1..Len(templates[PipelineEvent.template_id].elements) :
            KeyOf(templates[PipelineEvent.template_id].elements[i]) = SIGNATURE
            => IF SignatureOnDisk(PipelineEvent)
               THEN /\ PipelineFragments[i].tag = "img"
                    /\ PipelineFragments[i].src =
                          <<"file:", "/", "/">>
                          \o join(upload_folder.s, PipelineEvent.signature_filename.s)
               ELSE /\ PipelineFragments[i].tag = "div"
                    /\ PipelineFragments[i].text = <<>>

C28_Witness ==
    /\ ThroughPipeline
    /\ SignatureOnDisk(PipelineEvent)
    /\ PipelineFragments[1].tag = "img"

(***************************************************************************)
(* SpecDelegation: one certificate request at a time, followed call by     *)
(* call through CertificateService.generate_certificate_pdf and            *)
(* EventService.generate_certificate_service, while update_event_service   *)
(* requests of other users change the event's template                     *)
(***************************************************************************)
MaxChanges == 2

PDF == "generate_certificate_pdf"
SERVICE == "generate_certificate_service"

\* an activation of one of the two functions: entered, or awaiting the
\* function it called
Activation(fn, event_id, registration, pc) ==
    [fn |-> fn, event_id |-> event_id, registration |-> registration, pc |-> pc]

\* the activations of the request (the innermost last), the value on its way
\* to the caller, the calls from one service to the other, and the commits
\* to the event since the request began
Request(stack, ret, crossings, changes) ==
    [stack |-> stack, ret |-> ret, crossings |-> crossings, changes |-> changes]

Top == last.stack[Len(last.stack)]

Pop(stack) == SubSeq(stack, 1, Len(stack) - 1)

Await(stack) == [stack EXCEPT ![Len(stack)].pc = "await"]

InitDelegation ==
    /\ WEASYPRINT_AVAILABLE \in BOOLEAN
    /\ os_name = "posix"
    /\ upload_folder = PyString(UploadRoot)
    /\ files = {}
    /\ templates \in {NoRows, Insert(NoRows, 1, BlankLayout)}
    /\ events \in {Insert(NoRows, 1, [title |-> "Meeting", template_id |-> template_id,
                                      signature_filename |-> None]) :
                      template_id \in {NoTemplate, 1}}
    /\ registrations = Insert(NoRows, 1,
                              [event_id |-> 1, email |-> "ana@example.org",
                               first_name |-> "Alice", last_name |-> "Martin",
                               unique_key |-> 1, attended |-> TRUE])
    /\ last = Request(<<>>, Pending, 0, 0)
    /\ SpecIdle

FrameDelegation ==
    UNCHANGED <<dimVars, renderVars, envVars, WEASYPRINT_AVAILABLE, templates, registrations>>

\* download_certificate, lines 112-121: the registration of the user for
\* this event is attended; generate_certificate_pdf(event_id, registration)
StartDownload ==
    \E r \in DOMAIN registrations :
        /\ last.stack = <<>>
        /\ registrations[r].attended
        /\ registrations[r].event_id \in DOMAIN events
        /\ last' = Request(<<Activation(PDF, registrations[r].event_id, r, "enter")>>,
                           Pending, 0, 0)
        /\ UNCHANGED events /\ FrameDelegation

\* request_certificate, lines 390-394: generate_certificate_service(id)
StartRequest ==
    \E r \in DOMAIN registrations :
        /\ last.stack = <<>>
        /\ registrations[r].attended
        /\ last' = Request(<<Activation(SERVICE, registrations[r].event_id, r, "enter")>>,
                           Pending, 0, 0)
        /\ UNCHANGED events /\ FrameDelegation

\* the activation ends with this value
Leave(ret) == last' = [last EXCEPT !.stack = Pop(@), !.ret = ret]

\* the activation calls the other service
Cross(fn, event_id, registration) ==
    /\ Len(last.stack) <= MaxChanges + 1
    /\ last' = [last EXCEPT
                   !.stack = Append(Await(@), Activation(fn, event_id, registration, "enter")),
                   !.crossings = @ + 1]

\* a generate_certificate_service that hands every request to
\* generate_certificate_pdf
EnterService_always ==
    /\ last.stack # <<>> /\ Top.fn = SERVICE /\ Top.pc = "enter"
    /\ IF Top.registration \notin DOMAIN registrations THEN Leave(NotFound)
       ELSE IF ~registrations[Top.registration].attended THEN Leave(Return(None))
       ELSE IF registrations[Top.registration].event_id \notin DOMAIN events
       THEN Leave(NotFound)
       ELSE Cross(PDF, registrations[Top.registration].event_id, Top.registration)
    /\ UNCHANGED events /\ FrameDelegation

\* generate_certificate_pdf, lines 93-112 and 114-160
EnterPdf ==
    /\ last.stack # <<>> /\ Top.fn = PDF /\ Top.pc = "enter"
    /\ IF ~WEASYPRINT_AVAILABLE
       THEN Leave(Raise("MeetingManagerError", MSG_UNAVAILABLE))
       ELSE IF Top.event_id \notin DOMAIN events THEN Leave(NotFound)
       ELSE IF events[Top.event_id].template_id = NoTemplate
       THEN Cross(SERVICE, Top.event_id, Top.registration)
       ELSE Leave(template_certificate_pdf(events[Top.event_id],
                                           registrations[Top.registration]))
    /\ UNCHANGED events /\ FrameDelegation

\* generate_certificate_service, lines 664-677
EnterService ==
    /\ last.stack # <<>> /\ Top.fn = SERVICE /\ Top.pc = "enter"
    /\ IF Top.registration \notin DOMAIN registrations THEN Leave(NotFound)
       ELSE IF ~registrations[Top.registration].attended THEN Leave(Return(None))
       ELSE IF registrations[Top.registration].event_id \notin DOMAIN events
       THEN Leave(NotFound)
       ELSE IF events[registrations[Top.registration].event_id].template_id # NoTemplate
       THEN Cross(PDF, registrations[Top.registration].event_id, Top.registration)
       ELSE Leave(Swallow(Out(fallback_certificate_pdf(
                                  registrations[Top.registration],
                                  events[registrations[Top.registration].event_id]),
                              "fallback")).result)
    /\ UNCHANGED events /\ FrameDelegation

\* generate_certificate_pdf, lines 106-108: the fallback's bytes, or the
\* error when it gave None
ReturnToPdf ==
    /\ last.stack # <<>> /\ Top.fn = PDF /\ Top.pc = "await"
    /\ Leave(FallbackResult(Out(last.ret, "fallback")).result)
    /\ UNCHANGED events /\ FrameDelegation

\* generate_certificate_service, lines 675-680: the bytes wrapped in a
\* BytesIO, None for an exception
ReturnToService ==
    /\ last.stack # <<>> /\ Top.fn = SERVICE /\ Top.pc = "await"
    /\ Leave(Swallow(Out(last.ret, "template")).result)
    /\ UNCHANGED events /\ FrameDelegation

\* update_event_service of another request commits a template_id while the
\* certificate request runs (line 265)
UpdateEventMeanwhile ==
    \E event_id \in DOMAIN events, template_id \in {NoTemplate, 1} :
        /\ template_id # events[event_id].template_id
        /\ last.changes < MaxChanges
        /\ events' = [events EXCEPT ![event_id].template_id = template_id]
        /\ last' = [last EXCEPT !.changes = @ + 1]
        /\ FrameDelegation

\* the steps of the request itself
RequestStep == EnterPdf \/ EnterService \/ ReturnToPdf \/ ReturnToService

NextDelegation ==
    \/ StartDownload
    \/ StartRequest
    \/ EnterPdf
    \/ EnterService
    \/ ReturnToPdf
    \/ ReturnToService
    \/ UpdateEventMeanwhile

\* the request's thread keeps running
SpecDelegation == InitDelegation /\ [][NextDelegation]_vars /\ WF_vars(RequestStep)

InFlight == last.stack # <<>>

\* the request is over, with bytes, None or an exception for its route
Finished ==
    /\ last.stack = <<>>
    /\ last.ret # Pending
    /\ last.ret.t \in {"return", "raise"}

\* C27: every request that enters one of the two functions ends, with bytes,
\* None or an error; while the event does not change it calls from one
\* service to the other at most once, and each further call needs another
\* change of the event's template.
C27_DelegationTerminates ==
    /\ [](last.changes = 0 => last.crossings <= 1)
    /\ [](last.crossings <= 1 + last.changes)
    /\ [](last.stack = <<>> => last.ret = Pending \/ Finished)
    /\ InFlight ~> Finished

\* a request on an unchanged event went from generate_certificate_pdf to
\* generate_certificate_service and came back with the fallback's bytes
C27_Witness ==
    /\ Finished
    /\ last.changes = 0
    /\ last.crossings = 1
    /\ ReturnedBytes(last.ret)
    /\ last.ret.v.renderer = "fallback"

(***************************************************************************)
(* SpecRegistration: register_for_event_service, mark_attendance_service   *)
(* and delete_event_service requests served by concurrent threads, each    *)
(* query and each commit one step.  A query sees what is committed; the    *)
(* rows a request adds or deletes reach the database at its commit.        *)
(***************************************************************************)
MaxRequests == 2
MaxRows == 2

Slots == 1..MaxRequests

REGISTER == "register_for_event_service"
MARK_ATTENDANCE == "mark_attendance_service"
DELETE_EVENT == "delete_event_service"

\* a request in a thread: the call, where it stands, the registrations its
\* session marked for deletion, and its outcome once it is done
Req(op, pc, event_id, email, marked, out) ==
    [op |-> op, pc |-> pc, event_id |-> event_id, email |-> email,
     marked |-> marked, out |-> out]

Idle == Req("none", "done", 0, "", {}, Pending)

\* the threads, and whether the database enforces FOREIGN KEY constraints
\* (SQLite does not unless PRAGMA foreign_keys is set, which the
\* application never does; PostgreSQL and MySQL do)
Threads(requests, foreign_keys) == [requests |-> requests, foreign_keys |-> foreign_keys]

\* the registrations of an event with this email
Registered(event_id, email) ==
    {r \in DOMAIN registrations :
        registrations[r].event_id = event_id /\ registrations[r].email = email}

\* the registrations of an event
RegistrationsOf(event_id) ==
    {r \in DOMAIN registrations : registrations[r].event_id = event_id}

NewRegistration(event_id, email, attended) ==
    [event_id |-> event_id, email |-> email, first_name |-> "Alice",
     last_name |-> "Martin", unique_key |-> NextId(registrations), attended |-> attended]

InitRegistration ==
    /\ WEASYPRINT_AVAILABLE = TRUE
    /\ os_name = "posix"
    /\ upload_folder = PyString(UploadRoot)
    /\ files = {}
    /\ templates = NoRows
    /\ events \in {Insert(NoRows, 1, [title |-> "Meeting", template_id |-> NoTemplate,
                                      signature_filename |-> None, status |-> status]) :
                      status \in {"visible", "hidden"}}
    /\ registrations = NoRows
    /\ last \in {Threads([slot \in Slots |-> Idle], foreign_keys) :
                    foreign_keys \in BOOLEAN}
    /\ SpecIdle

FrameRegistration ==
    UNCHANGED <<dimVars, renderVars, envVars, WEASYPRINT_AVAILABLE, templates>>

\* the thread goes on to pc, or ends with out
Goto(slot, pc) == last' = [last EXCEPT !.requests[slot].pc = pc]

End(slot, out) == last' = [last EXCEPT !.requests[slot].pc = "done",
                                       !.requests[slot].out = out]

At(slot, op, pc) == last.requests[slot].op = op /\ last.requests[slot].pc = pc

\* a request arrives in a free thread
Start(slot, op, event_id, email) ==
    /\ last.requests[slot].pc = "done"
    /\ last' = [last EXCEPT !.requests[slot] =
                                Req(op, "get_event", event_id, email, {}, Pending)]
    /\ UNCHANGED <<events, registrations>> /\ FrameRegistration

\* POST /register/<event_id>
StartRegister(slot) == \E email \in Emails : Start(slot, REGISTER, 1, email)

\* lines 418-421: Event.query.get_or_404, event.status
RegisterGetEvent(slot) ==
    /\ At(slot, REGISTER, "get_event")
    /\ IF last.requests[slot].event_id \notin DOMAIN events THEN End(slot, NotFound)
       ELSE IF events[last.requests[slot].event_id].status # "visible"
       THEN End(slot, Raise("ValidationError",
                            "Registration is not available for this event."))
       ELSE Goto(slot, "check")
    /\ UNCHANGED <<events, registrations>> /\ FrameRegistration

\* lines 423-429: the query for a registration with this email
RegisterCheckExisting(slot) ==
    /\ At(slot, REGISTER, "check")
    /\ IF Registered(last.requests[slot].event_id, last.requests[slot].email) # {}
       THEN End(slot, Raise("ValidationError", "Email already registered for this event."))
       ELSE Goto(slot, "insert")
    /\ UNCHANGED <<events, registrations>> /\ FrameRegistration

\* the INSERT of a registration: refused when the database enforces the
\* foreign key and the event row is gone
Refused(event_id) == last.foreign_keys /\ event_id \notin DOMAIN events

\* lines 431-456: add, commit; any exception is a RegistrationError
RegisterCommit(slot) ==
    /\ At(slot, REGISTER, "insert")
    /\ NextId(registrations) <= MaxRows
    /\ IF Refused(last.requests[slot].event_id)
       THEN /\ End(slot, Raise("RegistrationError",
                               "An error occurred while processing your registration."))
            /\ UNCHANGED registrations
       ELSE /\ registrations' =
                  Insert(registrations, NextId(registrations),
                         NewRegistration(last.requests[slot].event_id,
                                         last.requests[slot].email, FALSE))
            /\ End(slot, Return(NextId(registrations)))
    /\ UNCHANGED events /\ FrameRegistration

\* POST /admin/mark_attendance/<event_id> with action save_new_registrations
\* and one new row, or (no email) with action check_all
StartMarkAttendance(slot) ==
    \E email \in Emails \cup {""} : Start(slot, MARK_ATTENDANCE, 1, email)

\* routes/events.py line 183: Event.query.get_or_404(event_id)
AttendanceGetEvent(slot) ==
    /\ At(slot, MARK_ATTENDANCE, "get_event")
    /\ IF last.requests[slot].event_id \notin DOMAIN events THEN End(slot, NotFound)
       ELSE Goto(slot, "save")
    /\ UNCHANGED <<events, registrations>> /\ FrameRegistration

\* mark_attendance_service, lines 558-606: check_all ticks the event's
\* registrations; save_new_registrations adds the row of the form as it
\* is; commit
AttendanceCommit(slot) ==
    /\ At(slot, MARK_ATTENDANCE, "save")
    /\ IF last.requests[slot].email = ""
       THEN /\ registrations' =
                  [r \in DOMAIN registrations |->
                      IF registrations[r].event_id = last.requests[slot].event_id
                      THEN [registrations[r] EXCEPT !.attended = TRUE]
                      ELSE registrations[r]]
            /\ End(slot, Return(None))
       ELSE /\ NextId(registrations) <= MaxRows
            /\ IF Refused(last.requests[slot].event_id)
               THEN /\ End(slot, Raise("MeetingManagerError", "Error updating attendance."))
                    /\ UNCHANGED registrations
               ELSE /\ registrations' =
                          Insert(registrations, NextId(registrations),
                                 NewRegistration(last.requests[slot].event_id,
                                                 last.requests[slot].email, TRUE))
                    /\ End(slot, Return(None))
    /\ UNCHANGED events /\ FrameRegistration

\* POST /delete_event/<event_id>
StartDeleteEvent(slot) == Start(slot, DELETE_EVENT, 1, "")

\* routes/events.py line 163 and delete_event_service line 343: get_or_404
DeleteGetEvent(slot) ==
    /\ At(slot, DELETE_EVENT, "get_event")
    /\ IF last.requests[slot].event_id \notin DOMAIN events THEN End(slot, NotFound)
       ELSE Goto(slot, "registrations")
    /\ UNCHANGED <<events, registrations>> /\ FrameRegistration

\* lines 346-348: the event's registrations are queried and marked deleted
\* in the session
DeleteMarkRegistrations(slot) ==
    /\ At(slot, DELETE_EVENT, "registrations")
    /\ last' = [last EXCEPT
                   !.requests[slot].pc = "commit",
                   !.requests[slot].marked = RegistrationsOf(last.requests[slot].event_id)]
    /\ UNCHANGED <<events, registrations>> /\ FrameRegistration

\* the flush fails: a marked row or the event is already gone (stale
\* delete), or the event has a registration the session did not mark, whose
\* event_id the Event.registrations relationship then sets to NULL against
\* nullable=False
FlushFails(slot) ==
    \/ last.requests[slot].event_id \notin DOMAIN events
    \/ ~(last.requests[slot].marked \subseteq DOMAIN registrations)
    \/ RegistrationsOf(last.requests[slot].event_id) # last.requests[slot].marked

\* lines 350-376: db.session.delete(event), commit; any exception rolls
\* back and is a MeetingManagerError
DeleteCommit(slot) ==
    /\ At(slot, DELETE_EVENT, "commit")
    /\ IF FlushFails(slot)
       THEN /\ End(slot, Raise("MeetingManagerError", "Error deleting event."))
            /\ UNCHANGED <<events, registrations>>
       ELSE /\ registrations' = [r \in DOMAIN registrations \ last.requests[slot].marked |->
                                    registrations[r]]
            /\ events' = Delete(events, last.requests[slot].event_id)
            /\ End(slot, Return(None))
    /\ FrameRegistration

NextRegistration ==
    \E slot \in Slots :
        \/ StartRegister(slot)
        \/ RegisterGetEvent(slot)
        \/ RegisterCheckExisting(slot)
        \/ RegisterCommit(slot)
        \/ StartMarkAttendance(slot)
        \/ AttendanceGetEvent(slot)
        \/ AttendanceCommit(slot)
        \/ StartDeleteEvent(slot)
        \/ DeleteGetEvent(slot)
        \/ DeleteMarkRegistrations(slot)
        \/ DeleteCommit(slot)

SpecRegistration == InitRegistration /\ [][NextRegistration]_vars

\* C29: no event ever has two registrations with the same email, and a
\* register_for_event_service that finds its email registered for the event
\* ends in ValidationError and leaves the registrations as they are.
C29_NoDuplicateEmail ==
    /\ [](\A a, b \in DOMAIN registrations :
             (a # b /\ registrations[a].event_id = registrations[b].event_id)
                => registrations[a].email # registrations[b].email)
    /\ [][\A slot \in Slots :
             (/\ RegisterCheckExisting(slot)
              /\ Registered(last.requests[slot].event_id, last.requests[slot].email) # {})
             => /\ last'.requests[slot].out.t = "raise"
                /\ last'.requests[slot].out.exc = "ValidationError"
                /\ registrations' = registrations]_vars

\* C30: every stored registration refers to an event that exists, and a
\* delete_event_service that succeeds leaves no registration of its event.
C30_RegistrationsReferToEvents ==
    /\ [](\A r \in DOMAIN registrations : registrations[r].event_id \in DOMAIN events)
    /\ [][\A slot \in Slots :
             (DeleteCommit(slot) /\ last'.requests[slot].out.t = "return")
             => \A r \in DOMAIN registrations' :
                   registrations'[r].event_id # last.requests[slot].event_id]_vars

(***************************************************************************)
(* SpecWorkers: generate_certificate_pdf calls on the template path in     *)
(* concurrent threads, one step per query block, per pass of the element   *)
(* loop and for the PDF; update_layout commits in between.                 *)
(***************************************************************************)
MaxWorkers == 2

Workers == 1..MaxWorkers

\* the locals of a call: layout_data, context, the elements the loop has
\* still to visit, elements_html, the returned value; overlapped records
\* that another call was inside its loop during this one's
Worker(pc, registration, layout, ctx, elements, elements_html, overlapped, out) ==
    [pc |-> pc, registration |-> registration, layout |-> layout, ctx |-> ctx,
     elements |-> elements, elements_html |-> elements_html,
     overlapped |-> overlapped, out |-> out]

Resting == Worker("done", 0, NoLayout, NoContext, <<>>, <<>>, FALSE, Pending)

WorkerLayouts == {SignatureLayout, SignedLayout}

InitWorkers ==
    /\ WEASYPRINT_AVAILABLE = TRUE
    /\ os_name = "posix"
    /\ upload_folder = PyString(UploadRoot)
    /\ files \in {{}, {SignaturePath}}
    /\ templates = Insert(NoRows, 1, SignatureLayout)
    /\ events = Insert(NoRows, 1, [title |-> "Meeting", template_id |-> 1,
                                   signature_filename |-> PyString(SIGNATURE_FILE)])
    /\ registrations =
          Insert(Insert(NoRows, 1, [event_id |-> 1, email |-> "ana@example.org",
                                    first_name |-> "Alice", last_name |-> "Martin",
                                    unique_key |-> 1, attended |-> TRUE]),
                 2, [event_id |-> 1, email |-> "bob@example.org",
                     first_name |-> "Bob", last_name |-> "Durand",
                     unique_key |-> 2, attended |-> TRUE])
    /\ last = [w \in Workers |-> Resting]
    /\ SpecIdle

FrameWorkers ==
    UNCHANGED <<dimVars, renderVars, envVars, WEASYPRINT_AVAILABLE, events, registrations>>

\* download_certificate calls generate_certificate_pdf in a free thread
RenderStart(w) ==
    /\ last[w].pc = "done"
    /\ \E registration \in DOMAIN registrations :
          last' = [last EXCEPT ![w] = Worker("read", registration, NoLayout, NoContext,
                                             <<>>, <<>>, FALSE, Pending)]
    /\ UNCHANGED templates /\ FrameWorkers

\* lines 93-145 and 162-171: the event, its template's layout_data and the
\* context are read into locals, elements_html = []
RenderRead(w) ==
    /\ last[w].pc = "read"
    /\ last' = [last EXCEPT ![w] =
                   Worker("loop", last[w].registration,
                          templates[events[registrations[last[w].registration].event_id].template_id],
                          CertificateContext(
                              events[registrations[last[w].registration].event_id],
                              registrations[last[w].registration]),
                          Get(templates[events[registrations[last[w].registration].event_id].template_id],
                              "elements", <<>>),
                          <<>>, FALSE, Pending)]
    /\ UNCHANGED templates /\ FrameWorkers

\* the calls that are inside their element loop with fragments gathered
InLoop == {v \in Workers : last[v].pc = "loop" /\ last[v].elements_html # <<>>}

\* this pass's effect on the locals of w, r being what the pass rendered
AfterPass(w, r) ==
    IF r.t = "raise"
    THEN [last[w] EXCEPT !.pc = "done", !.out = r,
                         !.overlapped = @ \/ InLoop \ {w} # {}]
    ELSE [last[w] EXCEPT !.elements = Tail(@), !.elements_html = @ \o r.v,
                         !.overlapped = @ \/ InLoop \ {w} # {}]

\* a loop whose elements_html is one list for all calls
RenderLoop_shared(w) ==
    /\ last[w].pc = "loop" /\ last[w].elements # <<>>
    /\ last' = [v \in Workers |->
                   IF v = w THEN AfterPass(w, RenderElement(Head(last[w].elements), last[w].ctx))
                   ELSE IF last[v].pc = "loop"
                             /\ RenderElement(Head(last[w].elements), last[w].ctx).t = "return"
                   THEN [last[v] EXCEPT !.elements_html =
                            @ \o RenderElement(Head(last[w].elements), last[w].ctx).v]
                   ELSE last[v]]
    /\ UNCHANGED templates /\ FrameWorkers

\* lines 173-271: one pass of the loop, appending to the call's own
\* elements_html
RenderLoop(w) ==
    /\ last[w].pc = "loop" /\ last[w].elements # <<>>
    /\ last' = [last EXCEPT ![w] =
                   AfterPass(w, RenderElement(Head(last[w].elements), last[w].ctx))]
    /\ UNCHANGED templates /\ FrameWorkers

\* lines 273-326 and 148-160: the page around elements_html, written to
\* the call's own BytesIO
RenderWrite(w) ==
    /\ last[w].pc = "loop" /\ last[w].elements = <<>>
    /\ last' = [last EXCEPT ![w].pc = "done",
                            ![w].out = WritePdf(ComposeHtml(last[w].layout,
                                                            Return(last[w].elements_html)))]
    /\ UNCHANGED templates /\ FrameWorkers

\* update_layout commits another layout for the template
UpdateLayoutMeanwhile ==
    /\ \E layout \in WorkerLayouts \ {templates[1]} :
          templates' = [templates EXCEPT ![1] = layout]
    /\ UNCHANGED last /\ FrameWorkers

RenderStep(w) == RenderRead(w) \/ RenderLoop(w) \/ RenderWrite(w)

NextWorkers ==
    \/ \E w \in Workers :
          \/ RenderStart(w)
          \/ RenderRead(w)
          \/ RenderLoop(w)
          \/ RenderWrite(w)
    \/ UpdateLayoutMeanwhile

SpecWorkers == InitWorkers /\ [][NextWorkers]_vars

\* C21: in every interleaving of certificate renders, the output of each
\* render is the output of that render run alone on the layout, context and
\* files it read, and a step of a render changes neither the database, the
\* files nor the locals of another render.
C21_ConcurrentRendersIndependent ==
    /\ [](\A w \in Workers :
             (last[w].pc = "done" /\ last[w].out # Pending)
                => last[w].out = WritePdf(_render_html_from_layout(last[w].layout,
                                                                   last[w].ctx)))
    /\ [][\A w \in Workers :
             RenderStep(w)
                => /\ UNCHANGED <<templates, events, registrations, envVars>>
                   /\ \A v \in Workers \ {w} : last'[v] = last[v]]_vars

\* two overlapping renders have ended with a PDF each, for different
\* recipients and of different layouts
C21_Witness ==
    /\ \A w \in {1, 2} :
          /\ last[w].pc = "done" /\ last[w].out.t = "return"
          /\ last[w].overlapped
          /\ last[w].out.v.html.elements_html # <<>>
    /\ last[1].registration # last[2].registration
    /\ last[1].layout # last[2].layout

====
